---- MODULE Spec2Model ----
(***************************************************************************)
(* Model of the live-location session tracker of bot.py: the in-memory     *)
(* registry active_shares, its JSON snapshot (save_state / load_state),    *)
(* the periodic cleanup job and the retry-guarded append to the sheet.     *)
(*                                                                         *)
(* The bot runs on one asyncio event loop.  handle_location,               *)
(* handle_edited_location and cleanup_inactive_shares contain no await     *)
(* that yields (append_row_with_retry sleeps with the blocking             *)
(* time.sleep), so one of them runs at a time: pc is the position of the   *)
(* single running callback, "idle" when the loop waits for an event.       *)
(* The wall clock and a process crash are the environment.                 *)
(***************************************************************************)
EXTENDS Integers, Sequences, FiniteSets, TLC

VARIABLES
    clock,          \* the wall clock datetime.now(UTC_TZ) would return, in ticks
    active_shares,  \* the registry: a set of entries, one per dict item
    fs,             \* the two files: the snapshot and its temp file
    pc,             \* position of the running callback
    op,             \* which callback runs: "none", "open", "edit", "close", "sweep"
    share_key,      \* handle_edited_location: share_key
    now_utc,        \* the callback's now_utc
    row_data,       \* handle_edited_location: row_data
    attempt,        \* append_row_with_retry: the loop index
    tried,          \* outcomes of the append attempts of the running append
    success,        \* result of append_row_with_retry: "none", "true", "false"
    gs_worksheet,   \* the global handle: "ws" or "none"
    ledger,         \* rows of the sheet, in order
    data_to_save,   \* save_state: data_to_save
    pre,            \* the registry as the running callback found it
    pre_ledger,     \* the sheet as the running callback found it
    prev_file,      \* the snapshot file as the running save_state found it
    closed,         \* keys removed by a close and not opened since
    faults,         \* failures and crashes injected so far
    events,         \* callbacks started so far
    st_pc,          \* status_command: the await it is suspended at, or "none"
    st_reply        \* status_command: what the report is built from

vars == <<clock, active_shares, fs, pc, op, share_key, now_utc, row_data, attempt,
          tried, success, gs_worksheet, ledger, data_to_save, pre, pre_ledger,
          prev_file, closed, faults, events, st_pc, st_reply>>

----------------------------------------------------------------------------
(* Bounds of the model *)

\* ticks per second: the sub-second resolution of datetime (microseconds in
\* the code), enough to make truncation to whole seconds visible
TicksPerSec == 2
\* how many of the instants of InstantTable the clock can show
NumInstants == 5
\* save failures, crashes and clock set-backs in one behaviour
MaxFaults == 1
\* callbacks (events and sweeps) started in one behaviour
MaxEvents == 3
\* items of a snapshot file that main() finds at start
MaxFileItems == 3
\* rows of the sheet that a /status command reads
MaxRows == 3
\* how far from the size limit of a message the lengths of the rendered
\* reports lie, on either side
MaxMargin == 30

----------------------------------------------------------------------------
(* Program constants *)

MAX_INACTIVE_HOURS == 9
\* the default of max_retries in get_worksheet_with_retry and append_row_with_retry
max_retries == 2
\* the default of delay in append_row_with_retry, in seconds
delay == 5
\* America/Sao_Paulo is UTC-3 all year (no daylight saving since 2019)
BR_UTC_OFFSET_HOURS == -3
\* filters.Chat(chat_id=TARGET_GROUP_ID): every event is of this chat
TARGET_GROUP_ID == -100

STATE_FILENAME == "active_shares_state.json"

\* status_command: len(final_reply) > 4096
MessageLimit == 4096
\* status_command: final_reply[:4090]
CutAt == 4090

SEC == TicksPerSec
MINUTE == 60 * SEC
HOUR == 60 * MINUTE

\* timedelta(hours=MAX_INACTIVE_HOURS)
inactive_limit == MAX_INACTIVE_HOURS * HOUR

----------------------------------------------------------------------------
(* The environment's inputs *)

\* T0, ten and twenty-five minutes later, the inactivity limit after the
\* second of them, one tick more, and later ones
InstantTable == <<0, 10 * MINUTE, 25 * MINUTE, inactive_limit + 10 * MINUTE,
                  inactive_limit + 10 * MINUTE + 1, 1, 10 * HOUR>>

InstantAt(i) == IF i <= Len(InstantTable) THEN InstantTable[i] ELSE (4 + i) * HOUR

Instants == {InstantAt(i) : i \in 1..NumInstants}

MessageIds == {5, 12}

Keys == {<<TARGET_GROUP_ID, m>> : m \in MessageIds}

\* message.from_user of a message: one user has a username, the other a first
\* name only; a message keeps its sender
Sender(message_id) ==
    IF message_id = 5 THEN [id |-> 7, username |-> "alice", first_name |-> "Alice"]
    ELSE [id |-> 8, username |-> "", first_name |-> "Bob"]

NoKey == <<0, 0>>
NoTime == 0 - 1

----------------------------------------------------------------------------
(* Text: a string is a sequence of one-character strings *)

DigitChars == <<"0", "1", "2", "3", "4", "5", "6", "7", "8", "9">>

IsDigit(c) == \E i \in 1..10 : DigitChars[i] = c

DigitValue(c) == (CHOOSE i \in 1..10 : DigitChars[i] = c) - 1

RECURSIVE NatToStr(_)
NatToStr(n) == IF n < 10 THEN <<DigitChars[n + 1]>>
               ELSE NatToStr(n \div 10) \o <<DigitChars[(n % 10) + 1]>>

\* format of an int in an f-string
IntToStr(n) == IF n < 0 THEN <<"-">> \o NatToStr(0 - n) ELSE NatToStr(n)

RECURSIVE DigitsToNat(_)
DigitsToNat(s) == IF s = <<>> THEN 0
                  ELSE 10 * DigitsToNat(SubSeq(s, 1, Len(s) - 1)) + DigitValue(s[Len(s)])

AllDigits(s) == s # <<>> /\ \A i \in 1..Len(s) : IsDigit(s[i])

Unsigned(s) == IF s # <<>> /\ s[1] \in {"-", "+"} THEN Tail(s) ELSE s

\* int(s) succeeds (an optional sign, then digits); otherwise ValueError
IsIntStr(s) == AllDigits(Unsigned(s))

StrToInt(s) == IF s # <<>> /\ s[1] = "-" THEN 0 - DigitsToNat(Unsigned(s))
               ELSE DigitsToNat(Unsigned(s))

\* str.split(':') : the pieces between the colons
RECURSIVE Split(_)
Split(s) ==
    IF \A i \in 1..Len(s) : s[i] # ":" THEN <<s>>
    ELSE LET i == CHOOSE j \in 1..Len(s) :
                      s[j] = ":" /\ \A h \in 1..(j - 1) : s[h] # ":"
         IN <<SubSeq(s, 1, i - 1)>> \o Split(SubSeq(s, i + 1, Len(s)))

\* f"{key_tuple[0]}:{key_tuple[1]}"
StrKey(key_tuple) == IntToStr(key_tuple[1]) \o <<":">> \o IntToStr(key_tuple[2])

\* chat_id_str, message_id_str = str_key.split(':') and the two int() calls
\* raise ValueError unless there are two pieces, each an int
KeyParses(str_key) ==
    LET parts == Split(str_key)
    IN Len(parts) = 2 /\ IsIntStr(parts[1]) /\ IsIntStr(parts[2])

ParseKey(str_key) ==
    LET parts == Split(str_key)
    IN <<StrToInt(parts[1]), StrToInt(parts[2])>>

----------------------------------------------------------------------------
(* Timestamps.  An aware UTC datetime is its instant in ticks.  Its text    *)
(* forms are records of the fields the text carries.                        *)

\* isoformat(timespec='seconds'): the fraction is never written
IsoFormatSeconds(t) == [sec |-> t \div TicksPerSec, frac |-> <<>>, off |-> <<0>>]

\* datetime.isoformat() of an aware UTC datetime: the seconds, the fraction
\* only when it is not zero, the UTC offset
IsoFormat(t) ==
    [sec |-> t \div TicksPerSec,
     frac |-> IF t % TicksPerSec = 0 THEN <<>> ELSE <<t % TicksPerSec>>,
     off |-> <<0>>]

\* datetime.fromisoformat(s).astimezone(UTC_TZ): the instant the text names
FromIso(s) ==
    (s.sec * TicksPerSec) + (IF s.frac = <<>> THEN 0 ELSE s.frac[1])
        - (IF s.off = <<>> THEN 0 ELSE s.off[1] * TicksPerSec)

\* strftime with a format that ends at the seconds, in the zone offset_hours
\* from UTC: the fraction is dropped
Strftime(t, offset_hours) == (t \div TicksPerSec) + offset_hours * 3600

\* int(x) of a number of seconds given in ticks: truncation toward zero
IntSeconds(ticks) == IF ticks >= 0 THEN ticks \div TicksPerSec
                     ELSE 0 - ((0 - ticks) \div TicksPerSec)

Max(a, b) == IF a >= b THEN a ELSE b

format_duration(total_seconds) ==
    LET s == IF total_seconds < 0 THEN 0 ELSE total_seconds
    IN <<s \div 3600, (s \div 60) % 60, s % 60>>

\* an int in an f-string with the format :02 : at least two digits
Pad2(n) == IF 0 <= n /\ n < 10 THEN <<"0">> \o IntToStr(n) ELSE IntToStr(n)

\* format_duration: the text f"{total_hours:02}:{mm:02}:{ss:02}"
DurationText(total_seconds) ==
    LET hms == format_duration(total_seconds)
    IN Pad2(hms[1]) \o <<":">> \o Pad2(hms[2]) \o <<":">> \o Pad2(hms[3])

----------------------------------------------------------------------------
(* The registry: a Python dict as the set of its items, each carrying its key *)

Has(d, k) == \E e \in d : e.key = k

Get(d, k) == CHOOSE e \in d : e.key = k

\* d[k] = v
DictSet(d, k, v) == {e \in d : e.key # k} \cup {v}

\* a deletion that deletes nothing
DictDelNothing(d, k) == d

\* del d[k]
DictDel(d, k) == {e \in d : e.key # k}

DictKeys(d) == {e.key : e \in d}

\* handle_location: the value stored under share_key
NewShare(k, user, now) ==
    [key |-> k,
     user_id |-> user.id,
     username |-> IF user.username # "" THEN user.username ELSE user.first_name,
     start_time |-> now,
     last_update |-> now]

\* a registry that adds an item without replacing the one under the key
OpenShareAdds(d, k, user, now) == d \cup {NewShare(k, user, now)}

\* handle_location: active_shares[share_key] = {...}
OpenShare(d, k, user, now) == DictSet(d, k, NewShare(k, user, now))

\* an update that also takes the share's start to be now
UpdateShareRestarts(d, k, now) ==
    DictSet(d, k, [Get(d, k) EXCEPT !.last_update = now, !.start_time = now])

\* handle_edited_location: active_shares[share_key]['last_update'] = now_utc
UpdateShare(d, k, now) ==
    DictSet(d, k, [Get(d, k) EXCEPT !.last_update = now])

\* the test with the limit itself counted as inactive
IsInactiveAtLimit(share_info, now) == now - share_info.last_update >= inactive_limit

\* the test with the subtraction the other way round
IsInactiveReversed(share_info, now) == share_info.last_update - now > inactive_limit

\* cleanup_inactive_shares: the test that marks a key for removal
IsInactive(share_info, now) == now - share_info.last_update > inactive_limit

\* cleanup_inactive_shares: keys_to_remove
KeysToRemove(d, now) == {e.key : e \in {x \in d : IsInactive(x, now)}}

\* cleanup_inactive_shares: the registry after the deletions
Cleanup(d, now) == {e \in d : e.key \notin KeysToRemove(d, now)}

\* the duration without the max(0, ...)
DurationUnclamped(start_time_utc, end_time_utc) ==
    IntSeconds(end_time_utc - start_time_utc)

\* handle_edited_location: duration_seconds
DurationSeconds(start_time_utc, end_time_utc) ==
    Max(0, IntSeconds(end_time_utc - start_time_utc))

\* handle_edited_location: row_data
RowData(share_info, end_time_utc) ==
    [user_id |-> share_info.user_id,
     username |-> share_info.username,
     start_br |-> Strftime(share_info.start_time, BR_UTC_OFFSET_HOURS),
     end_br |-> Strftime(end_time_utc, BR_UTC_OFFSET_HOURS),
     duration |-> format_duration(DurationSeconds(share_info.start_time, end_time_utc)),
     start_utc |-> Strftime(share_info.start_time, 0),
     end_utc |-> Strftime(end_time_utc, 0),
     duration_seconds |-> DurationSeconds(share_info.start_time, end_time_utc)]

NoRow == [user_id |-> 0, username |-> "", start_br |-> 0, end_br |-> 0,
          duration |-> <<0, 0, 0>>, start_utc |-> 0, end_utc |-> 0,
          duration_seconds |-> 0]

----------------------------------------------------------------------------
(* Files and the snapshot *)

TEMP_FILENAME == "active_shares_state.json.tmp"

\* a save that writes the snapshot file in place
TempFilenameInPlace(filename) == filename

\* save_state: temp_filename = filename + ".tmp"
TempFilename(filename) ==
    IF filename = STATE_FILENAME THEN TEMP_FILENAME ELSE filename

Paths == {STATE_FILENAME, TEMP_FILENAME}

\* a file is absent, holds a complete JSON object (its items in the order of
\* the text), holds JSON that is no object, or holds text that is not JSON
Absent == [kind |-> "absent", entries |-> <<>>]
Partial == [kind |-> "partial", entries |-> <<>>]
NotObject == [kind |-> "array", entries |-> <<>>]
Json(entries) == [kind |-> "json", entries |-> entries]

KeyLE(a, b) == a[1] < b[1] \/ (a[1] = b[1] /\ a[2] <= b[2])

\* data.items(): the registry keeps no order here, the items come by key
RECURSIVE ItemsOf(_)
ItemsOf(d) ==
    IF d = {} THEN <<>>
    ELSE LET e == CHOOSE x \in d : \A y \in d : KeyLE(x.key, y.key)
         IN <<e>> \o ItemsOf(d \ {e})

\* save_state: data_to_save, built from the deep copy of data
PrepareData(data) ==
    LET items == ItemsOf(data)
    IN [i \in 1..Len(items) |->
           [key |-> StrKey(items[i].key),
            user_id |-> items[i].user_id,
            username |-> items[i].username,
            start_time |-> IsoFormat(items[i].start_time),
            last_update |-> IsoFormat(items[i].last_update)]]

\* datetime.fromisoformat(s) returns: the UTC offset of the text, if any, is
\* strictly between -24 h and +24 h; otherwise ValueError
IsIsoText(s) ==
    s.off = <<>> \/ (0 - 24 * 3600 < s.off[1] /\ s.off[1] < 24 * 3600)

\* load_state: one entry of the loaded object, converted
LoadEntry(j) ==
    [key |-> ParseKey(j.key),
     user_id |-> j.user_id,
     username |-> j.username,
     start_time |-> FromIso(j.start_time),
     last_update |-> FromIso(j.last_update)]

\* an entry check that looks at the key alone
KeyLoads(j) == KeyParses(j.key)

\* load_state: the body of the inner try raises nothing for this entry (the
\* split, the two int() and the two fromisoformat() calls all return)
EntryLoads(j) ==
    KeyParses(j.key) /\ IsIsoText(j.start_time) /\ IsIsoText(j.last_update)

\* load_state: the loop over loaded_data.items(), state_data[key_tuple] =
\* value_dict for every entry that raised nothing
RECURSIVE LoadItems(_, _)
LoadItems(items, state_data) ==
    IF items = <<>> THEN state_data
    ELSE LoadItems(Tail(items),
                   IF EntryLoads(Head(items))
                   THEN DictSet(state_data, ParseKey(Head(items).key),
                                LoadEntry(Head(items)))
                   ELSE state_data)

\* load_state: what the body of the outer try raises
LoadException(file) ==
    CASE file.kind = "absent" -> "FileNotFoundError"
      [] file.kind = "partial" -> "JSONDecodeError"
      [] file.kind = "array" -> "AttributeError"
      [] OTHER -> "none"

\* handlers that name the missing file alone
LoadHandlersNotFoundOnly == {"FileNotFoundError"}

\* load_state: the except clauses of the outer try; "Exception" takes every
\* exception
LoadHandlers == {"FileNotFoundError", "JSONDecodeError", "Exception"}

\* load_state lets the exception out to main
LoadPropagates(file) ==
    /\ LoadException(file) # "none"
    /\ LoadException(file) \notin LoadHandlers
    /\ "Exception" \notin LoadHandlers

\* load_state: {} when a handler of the outer try ran, otherwise state_data
LoadState(file) ==
    IF LoadException(file) # "none" THEN {}
    ELSE LoadItems(file.entries, {})

\* open(temp_filename, 'w'): the temp file exists and is empty
OpenTemp(files, filename) == [files EXCEPT ![TempFilename(filename)] = Partial]

\* json.dump and the close of the file: the temp file holds the whole object
DumpTemp(files, filename, data) ==
    [files EXCEPT ![TempFilename(filename)] = Json(data)]

\* os.replace(temp_filename, filename)
Replace(files, filename) ==
    IF TempFilename(filename) = filename THEN files
    ELSE [files EXCEPT ![filename] = files[TempFilename(filename)],
                       ![TempFilename(filename)] = Absent]

\* os.remove(temp_filename)
RemoveTemp(files, filename) == [files EXCEPT ![TempFilename(filename)] = Absent]

----------------------------------------------------------------------------
(* Snapshot files main() can find at start: written by save_state, or by    *)
(* hand, or damaged                                                          *)

GroupStr == IntToStr(TARGET_GROUP_ID)

\* the text of an instant written with a UTC offset of off_hours
IsoAtOffset(t, off_hours) ==
    [sec |-> (t \div TicksPerSec) + off_hours * 3600,
     frac |-> IF t % TicksPerSec = 0 THEN <<>> ELSE <<t % TicksPerSec>>,
     off |-> <<off_hours * 3600>>]

Item(str_key, message_id, start_text, last_text) ==
    [key |-> str_key,
     user_id |-> Sender(message_id).id,
     username |-> NewShare(NoKey, Sender(message_id), 0).username,
     start_time |-> start_text,
     last_update |-> last_text]

\* an item as save_state writes it; one with its times at -03:00; the key of
\* the first written with a leading zero; a key of three pieces; a key that is
\* no number; a last_update and a start_time whose offset is 25 h
SampleItems ==
    <<Item(GroupStr \o <<":", "5">>, 5,
           IsoFormat(0), IsoFormat(10 * MINUTE + 1)),
      Item(GroupStr \o <<":", "1", "2">>, 12,
           IsoAtOffset(MINUTE, BR_UTC_OFFSET_HOURS),
           IsoAtOffset(25 * MINUTE, BR_UTC_OFFSET_HOURS)),
      Item(GroupStr \o <<":", "0", "5">>, 12,
           IsoFormat(MINUTE), IsoFormat(MINUTE)),
      Item(GroupStr \o <<":", "5", ":", "1">>, 5,
           IsoFormat(0), IsoFormat(0)),
      Item(<<"x", ":", "5">>, 5,
           IsoFormat(0), IsoFormat(0)),
      Item(GroupStr \o <<":", "7">>, 12,
           IsoFormat(0), IsoAtOffset(MINUTE, 25)),
      Item(GroupStr \o <<":", "8">>, 5,
           IsoAtOffset(0, 25), IsoFormat(MINUTE))>>

\* the items of a JSON object have different names
ItemSeqs ==
    UNION {{[i \in 1..n |-> SampleItems[pick[i]]] :
                pick \in {f \in [1..n -> 1..Len(SampleItems)] :
                             \A a \in 1..n : \A b \in 1..n :
                                 f[a] = f[b] => a = b}} :
           n \in 0..MaxFileItems}

SnapshotFiles ==
    {Absent, NotObject}
        \cup {Json(items) : items \in ItemSeqs}
        \cup {[kind |-> "partial", entries |-> items] : items \in ItemSeqs}

----------------------------------------------------------------------------
(* The sheet *)

\* a retry list that takes 403 for a transient failure
RetryStatusesAndDenied == {429, 500, 503, 403}

\* append_row_with_retry: the status codes it retries on
RetryStatuses == {429, 500, 503}

\* status codes an APIError can carry; 403 stands for the permanent ones
ApiStatuses == {429, 500, 503, 403}

\* what one worksheet.append_row call can do: return, raise an APIError with
\* a status code, or raise another exception
AppendOutcomes ==
    {[kind |-> "ok", status |-> 200], [kind |-> "fault", status |-> 0]}
        \cup {[kind |-> "api", status |-> c] : c \in ApiStatuses}

\* the transient class of failures: rate limited or server side unavailable
OutcomeClass(o) ==
    IF o.kind # "api" THEN o.kind
    ELSE IF o.status \in {429, 500, 503} THEN "transient"
    ELSE "permanent"

\* get_worksheet_with_retry: the handle it returns, given whether the probe of
\* the existing handle passes and what each setup_google_sheets call returns
GetWorksheetWithRetry(handle, probe_ok, setups) ==
    IF handle = "ws" /\ probe_ok THEN "ws"
    ELSE IF \E i \in 1..(max_retries + 1) : setups[i] THEN "ws"
    ELSE "none"

\* the section without a record
NoSection == [found |-> FALSE, groups |-> {}, total_geral_seconds |-> 0,
              total_geral |-> <<>>]

\* status_command has built no report
NoReply == [sheet |-> "none", target |-> <<>>, section |-> NoSection, live |-> {}]

status_vars == <<st_pc, st_reply>>

----------------------------------------------------------------------------
(* The state after main() has loaded the snapshot and built the application *)

Init ==
    /\ clock = InstantAt(1)
    /\ fs = [p \in Paths |-> Absent]
    /\ active_shares = LoadState(Absent)
    /\ pc = "idle"
    /\ op = "none"
    /\ share_key = NoKey
    /\ now_utc = NoTime
    /\ row_data = NoRow
    /\ attempt = 0
    /\ tried = <<>>
    /\ success = "none"
    /\ gs_worksheet \in {"ws", "none"}
    /\ ledger = <<>>
    /\ data_to_save = <<>>
    /\ pre = {}
    /\ pre_ledger = <<>>
    /\ prev_file = Absent
    /\ closed = {}
    /\ faults = 0
    /\ events = 0
    /\ st_pc = "none"
    /\ st_reply = NoReply

\* what a callback leaves behind when it returns
locals == <<op, share_key, now_utc, row_data, attempt, tried, success,
            data_to_save, pre, pre_ledger, prev_file>>

ResetLocals ==
    /\ op' = "none"
    /\ share_key' = NoKey
    /\ now_utc' = NoTime
    /\ row_data' = NoRow
    /\ attempt' = 0
    /\ tried' = <<>>
    /\ success' = "none"
    /\ data_to_save' = <<>>
    /\ pre' = {}
    /\ pre_ledger' = <<>>
    /\ prev_file' = Absent

\* time passes between the callbacks.  A callback is taken to run in far
\* less than a tick here; the sleeps of the append are in CloseSpec.
ClockChange ==
    /\ UNCHANGED status_vars
    /\ pc = "idle"
    /\ \E t \in Instants \ {clock} : clock' = t /\ t > clock
    /\ UNCHANGED <<active_shares, fs, pc, gs_worksheet, ledger, closed, faults>>
    /\ UNCHANGED locals
    /\ UNCHANGED events

\* the wall clock is set back (datetime.now is not monotonic)
ClockSetBack ==
    /\ UNCHANGED status_vars
    /\ pc = "idle"
    /\ faults < MaxFaults
    /\ faults' = faults + 1
    /\ \E t \in Instants : t < clock /\ clock' = t
    /\ UNCHANGED <<active_shares, fs, pc, gs_worksheet, ledger, closed, events>>
    /\ UNCHANGED locals

----------------------------------------------------------------------------
(* handle_location *)

Open(k) ==
    /\ st_pc = "none"
    /\ UNCHANGED status_vars
    /\ pc = "idle"
    /\ events < MaxEvents
    /\ events' = events + 1
    /\ op' = "open"
    /\ share_key' = k
    /\ now_utc' = clock
    /\ pre' = active_shares
    /\ pre_ledger' = ledger
    /\ active_shares' = OpenShare(active_shares, k, Sender(k[2]), clock)
    /\ closed' = closed \ {k}
    /\ pc' = "save_prepare"
    /\ UNCHANGED <<clock, fs, row_data, attempt, tried, success, gs_worksheet,
                   ledger, data_to_save, prev_file, faults>>

----------------------------------------------------------------------------
(* handle_edited_location *)

\* an edit of an unknown key that takes it for the start of a share
EditedCreates(k) ==
    /\ st_pc = "none"
    /\ UNCHANGED status_vars
    /\ pc = "idle"
    /\ events < MaxEvents
    /\ events' = events + 1
    /\ ~Has(active_shares, k)
    /\ op' = "edit"
    /\ share_key' = k
    /\ now_utc' = clock
    /\ pre' = active_shares
    /\ pre_ledger' = ledger
    /\ active_shares' = OpenShare(active_shares, k, Sender(k[2]), clock)
    /\ pc' = "save_prepare"
    /\ UNCHANGED <<clock, fs, row_data, attempt, tried, success, gs_worksheet,
                   ledger, data_to_save, prev_file, closed, faults>>

\* the key is not in active_shares: the edit is ignored
EditedIgnored(k) ==
    /\ st_pc = "none"
    /\ UNCHANGED status_vars
    /\ pc = "idle"
    /\ events < MaxEvents
    /\ events' = events + 1
    /\ ~Has(active_shares, k)
    /\ op' = "edit"
    /\ share_key' = k
    /\ pre' = active_shares
    /\ pre_ledger' = ledger
    /\ pc' = "done"
    /\ UNCHANGED <<clock, active_shares, fs, now_utc, row_data, attempt, tried,
                   success, gs_worksheet, ledger, data_to_save, prev_file,
                   closed, faults>>

\* a heartbeat that updates the share and does not save
HeartbeatNoSave(k) ==
    /\ st_pc = "none"
    /\ UNCHANGED status_vars
    /\ pc = "idle"
    /\ events < MaxEvents
    /\ events' = events + 1
    /\ Has(active_shares, k)
    /\ op' = "heartbeat"
    /\ share_key' = k
    /\ now_utc' = clock
    /\ pre' = active_shares
    /\ pre_ledger' = ledger
    /\ active_shares' = UpdateShare(active_shares, k, clock)
    /\ pc' = "done"
    /\ UNCHANGED <<clock, fs, row_data, attempt, tried, success, gs_worksheet,
                   ledger, data_to_save, prev_file, closed, faults>>

\* the edited message still carries a live location
Heartbeat(k) ==
    /\ st_pc = "none"
    /\ UNCHANGED status_vars
    /\ pc = "idle"
    /\ events < MaxEvents
    /\ events' = events + 1
    /\ Has(active_shares, k)
    /\ op' = "heartbeat"
    /\ share_key' = k
    /\ now_utc' = clock
    /\ pre' = active_shares
    /\ pre_ledger' = ledger
    /\ active_shares' = UpdateShare(active_shares, k, clock)
    /\ pc' = "save_prepare"
    /\ UNCHANGED <<clock, fs, row_data, attempt, tried, success, gs_worksheet,
                   ledger, data_to_save, prev_file, closed, faults>>

\* a close that deletes the key before it appends the row
CloseBeginRemoves(k) ==
    /\ st_pc = "none"
    /\ UNCHANGED status_vars
    /\ pc = "idle"
    /\ events < MaxEvents
    /\ events' = events + 1
    /\ Has(active_shares, k)
    /\ op' = "close"
    /\ share_key' = k
    /\ now_utc' = clock
    /\ pre' = active_shares
    /\ pre_ledger' = ledger
    /\ row_data' = RowData(Get(active_shares, k), clock)
    /\ attempt' = 0
    /\ tried' = <<>>
    /\ pc' = "get_ws"
    /\ active_shares' = DictDel(active_shares, k)
    /\ UNCHANGED <<clock, fs, success, gs_worksheet, ledger,
                   data_to_save, prev_file, closed, faults>>

\* the edited message has no live location any more: the share ended
CloseBegin(k) ==
    /\ st_pc = "none"
    /\ UNCHANGED status_vars
    /\ pc = "idle"
    /\ events < MaxEvents
    /\ events' = events + 1
    /\ Has(active_shares, k)
    /\ op' = "close"
    /\ share_key' = k
    /\ now_utc' = clock
    /\ pre' = active_shares
    /\ pre_ledger' = ledger
    /\ row_data' = RowData(Get(active_shares, k), clock)
    /\ attempt' = 0
    /\ tried' = <<>>
    /\ pc' = "get_ws"
    /\ UNCHANGED <<clock, active_shares, fs, success, gs_worksheet, ledger,
                   data_to_save, prev_file, closed, faults>>

\* an append that goes on to write also when it obtained no worksheet
GetWorksheetGoesOn ==
    /\ UNCHANGED status_vars
    /\ pc \in {"get_ws", "reget_ws"}
    /\ \E probe_ok \in BOOLEAN, setups \in [1..(max_retries + 1) -> BOOLEAN] :
          gs_worksheet' = GetWorksheetWithRetry(gs_worksheet, probe_ok, setups)
    /\ success' = success
    /\ pc' = "append"
    /\ attempt' = IF pc = "reget_ws" THEN attempt + 1 ELSE attempt
    /\ UNCHANGED <<clock, active_shares, fs, op, share_key, now_utc, row_data,
                   tried, ledger, data_to_save, pre, pre_ledger, prev_file, closed,
                   faults>>
    /\ UNCHANGED events

\* append_row_with_retry: worksheet = get_worksheet_with_retry(), before the
\* first attempt and, after the sleep, before each retry
GetWorksheet ==
    /\ UNCHANGED status_vars
    /\ pc \in {"get_ws", "reget_ws"}
    /\ \E probe_ok \in BOOLEAN, setups \in [1..(max_retries + 1) -> BOOLEAN] :
          /\ gs_worksheet' = GetWorksheetWithRetry(gs_worksheet, probe_ok, setups)
          /\ IF gs_worksheet' = "none"
             THEN /\ success' = "false"
                  /\ pc' = "remove"
                  /\ attempt' = attempt
             ELSE /\ success' = success
                  /\ pc' = "append"
                  /\ attempt' = IF pc = "reget_ws" THEN attempt + 1 ELSE attempt
    /\ UNCHANGED <<clock, active_shares, fs, op, share_key, now_utc, row_data,
                   tried, ledger, data_to_save, pre, pre_ledger, prev_file, closed,
                   faults>>
    /\ UNCHANGED events

\* a loop that retries once more
AfterAttemptOneMore(o, n) ==
    IF o.kind = "ok" THEN "return_true"
    ELSE IF o.kind = "fault" THEN "return_false"
    ELSE IF o.status \in {429, 500, 503}
         THEN (IF n <= max_retries THEN "retry" ELSE "return_false")
    ELSE "return_false"

\* append_row_with_retry: where one attempt with outcome o leads
AfterAttempt(o, n) ==
    IF o.kind = "ok" THEN "return_true"
    ELSE IF o.kind = "fault" THEN "return_false"
    ELSE IF o.status \in RetryStatuses
         THEN (IF n < max_retries THEN "retry" ELSE "return_false")
    ELSE "return_false"

\* an append that builds the record again at each attempt, from the share
\* and the clock of the attempt
AppendRowStampsNow ==
    /\ UNCHANGED status_vars
    /\ pc = "append"
    /\ \E o \in AppendOutcomes :
          /\ tried' = Append(tried, OutcomeClass(o))
          /\ ledger' = IF o.kind = "ok"
                        THEN Append(ledger, RowData(Get(active_shares, share_key), clock))
                        ELSE ledger
          /\ success' = CASE AfterAttempt(o, attempt) = "return_true" -> "true"
                          [] AfterAttempt(o, attempt) = "return_false" -> "false"
                          [] OTHER -> success
          /\ pc' = IF AfterAttempt(o, attempt) = "retry" THEN "reget_ws" ELSE "remove"
    /\ UNCHANGED <<clock, active_shares, fs, op, share_key, now_utc, row_data,
                   attempt, gs_worksheet, data_to_save, pre, pre_ledger, prev_file,
                   closed, faults>>
    /\ UNCHANGED events

\* append_row_with_retry: one pass of the loop, worksheet.append_row(data)
AppendRow ==
    /\ UNCHANGED status_vars
    /\ pc = "append"
    /\ \E o \in AppendOutcomes :
          /\ tried' = Append(tried, OutcomeClass(o))
          /\ ledger' = IF o.kind = "ok" THEN Append(ledger, row_data) ELSE ledger
          /\ success' = CASE AfterAttempt(o, attempt) = "return_true" -> "true"
                          [] AfterAttempt(o, attempt) = "return_false" -> "false"
                          [] OTHER -> success
          /\ pc' = IF AfterAttempt(o, attempt) = "retry" THEN "reget_ws" ELSE "remove"
    /\ UNCHANGED <<clock, active_shares, fs, op, share_key, now_utc, row_data,
                   attempt, gs_worksheet, data_to_save, pre, pre_ledger, prev_file,
                   closed, faults>>
    /\ UNCHANGED events

\* a close that keeps the share when the append failed
CloseRemoveOnSuccess ==
    /\ UNCHANGED status_vars
    /\ pc = "remove"
    /\ attempt' = 0
    /\ tried' = <<>>
    /\ IF Has(active_shares, share_key) /\ success = "true"
       THEN /\ active_shares' = DictDel(active_shares, share_key)
            /\ closed' = closed \cup {share_key}
            /\ pc' = "save_prepare"
       ELSE /\ UNCHANGED <<active_shares, closed>>
            /\ pc' = "done"
    /\ UNCHANGED <<clock, fs, op, share_key, now_utc, row_data, success,
                   gs_worksheet, ledger, data_to_save, pre, pre_ledger, prev_file,
                   faults, events>>

\* a close that leaves the share in the registry
CloseRemoveNever ==
    /\ UNCHANGED status_vars
    /\ pc = "remove"
    /\ attempt' = 0
    /\ tried' = <<>>
    /\ pc' = "done"
    /\ UNCHANGED <<clock, active_shares, fs, op, share_key, now_utc, row_data,
                   success, gs_worksheet, ledger, data_to_save, pre, pre_ledger,
                   prev_file, closed, faults, events>>

\* handle_edited_location: after the append, whatever it returned, the key
\* is deleted if it is still there, and the state is saved if it was.  The
\* locals of append_row_with_retry are gone.
CloseRemove ==
    /\ UNCHANGED status_vars
    /\ pc = "remove"
    /\ attempt' = 0
    /\ tried' = <<>>
    /\ IF Has(active_shares, share_key)
       THEN /\ active_shares' = DictDel(active_shares, share_key)
            /\ closed' = closed \cup {share_key}
            /\ pc' = "save_prepare"
       ELSE /\ UNCHANGED <<active_shares, closed>>
            /\ pc' = "done"
    /\ UNCHANGED <<clock, fs, op, share_key, now_utc, row_data, success,
                   gs_worksheet, ledger, data_to_save, pre, pre_ledger, prev_file,
                   faults>>
    /\ UNCHANGED events

----------------------------------------------------------------------------
(* cleanup_inactive_shares *)

\* a sweep that writes a row for every share it removes
SweepFlushes ==
    /\ UNCHANGED status_vars
    /\ pc = "idle"
    /\ events < MaxEvents
    /\ events' = events + 1
    /\ op' = "sweep"
    /\ now_utc' = clock
    /\ pre' = active_shares
    /\ pre_ledger' = ledger
    /\ active_shares' = Cleanup(active_shares, clock)
    /\ ledger' = IF KeysToRemove(active_shares, clock) = {} THEN ledger
                 ELSE Append(ledger,
                             RowData(Get(active_shares,
                                         CHOOSE k \in KeysToRemove(active_shares, clock) : TRUE),
                                     clock))
    /\ pc' = IF KeysToRemove(active_shares, clock) # {} THEN "save_prepare" ELSE "done"
    /\ UNCHANGED <<clock, fs, share_key, row_data, attempt, tried, success,
                   gs_worksheet, data_to_save, prev_file, closed, faults>>

\* a job that gives the loop back between selecting the shares and deleting
\* them
SweepJobSuspends ==
    /\ pc = "idle"
    /\ op' = "sweep"
    /\ now_utc' = clock
    /\ pre' = active_shares
    /\ pre_ledger' = ledger
    /\ pc' = "idle"
    /\ UNCHANGED <<clock, active_shares, fs, share_key, row_data, attempt, tried,
                   success, gs_worksheet, ledger, data_to_save, prev_file, closed,
                   faults>>
    /\ UNCHANGED status_vars

\* a job that saves after every run, whether or not it removed a share
SweepJobAlwaysSaves ==
    /\ pc = "idle"
    /\ op' = "sweep"
    /\ now_utc' = clock
    /\ pre' = active_shares
    /\ pre_ledger' = ledger
    /\ active_shares' = Cleanup(active_shares, clock)
    /\ pc' = "save_prepare"
    /\ UNCHANGED <<clock, fs, share_key, row_data, attempt, tried, success,
                   gs_worksheet, ledger, data_to_save, prev_file, closed, faults>>
    /\ UNCHANGED status_vars

\* cleanup_inactive_shares, from its start to its save_state or its return
SweepJob ==
    /\ pc = "idle"
    /\ op' = "sweep"
    /\ now_utc' = clock
    /\ pre' = active_shares
    /\ pre_ledger' = ledger
    /\ active_shares' = Cleanup(active_shares, clock)
    /\ pc' = IF KeysToRemove(active_shares, clock) # {} THEN "save_prepare" ELSE "done"
    /\ UNCHANGED <<clock, fs, share_key, row_data, attempt, tried, success,
                   gs_worksheet, ledger, data_to_save, prev_file, closed, faults>>
    /\ UNCHANGED status_vars

\* a run of the job, counted among the callbacks of the behaviour
Sweep ==
    /\ events < MaxEvents
    /\ events' = events + 1
    /\ SweepJob

\* a run of the job when the timer of run_repeating fires, however many
\* callbacks have run
TimerSweep ==
    /\ SweepJob
    /\ UNCHANGED events

----------------------------------------------------------------------------
(* status_command.  It runs from one await to the next while no other       *)
(* callback runs; at an await (reply_text) the loop is free and the cleanup *)
(* job may run, but no other update is handled before the command returns.  *)

\* the date of a local time given in seconds: the text before the blank of
\* strftime('%d/%m/%Y %H:%M:%S'), and what strftime('%d/%m/%Y') writes
DateOf(local_seconds) == local_seconds \div (24 * 3600)

\* the text after the blank: start_time_br_str.split(' ')[1]
TimeOfDay(local_seconds) == local_seconds % (24 * 3600)

\* datetime.now(BR_TZ).date()
Today(now) == DateOf(Strftime(now, BR_UTC_OFFSET_HOURS))

\* start_time_br_str.startswith(target_date_str_filter)
RowOnDate(row, target_date) == DateOf(row.start_br) = target_date

\* colab_username: the Username cell, or "UserID <id>" when it is blank (every
\* row of the model has its UserID cell, so "Linha <i>" does not occur)
ColabName(row) ==
    IF row.username # "" THEN <<row.username>> ELSE <<"UserID", row.user_id>>

\* the numbers of a set, ascending: the order in which the rows are read
RECURSIVE Ascending(_)
Ascending(S) ==
    IF S = {} THEN <<>>
    ELSE LET m == CHOOSE x \in S : \A y \in S : x <= y
         IN <<m>> \o Ascending(S \ {m})

\* records left in the order of the sheet
SortRecordsNone(rows, idxs) == idxs

\* records.sort(key=lambda x: x[0]): by the start hour, rows of equal hour in
\* the order they had (the sort is stable); a record is named by its row
RECURSIVE SortRecords(_, _)
SortRecords(rows, idxs) ==
    IF idxs = <<>> THEN <<>>
    ELSE LET rest == SortRecords(rows, SubSeq(idxs, 1, Len(idxs) - 1))
             last == idxs[Len(idxs)]
             n == Cardinality({p \in 1..Len(rest) :
                                  TimeOfDay(rows[rest[p]].start_br)
                                      <= TimeOfDay(rows[last].start_br)})
         IN SubSeq(rest, 1, n) \o <<last>> \o SubSeq(rest, n + 1, Len(rest))

\* user_total_seconds += record[3], over the records of one name
RECURSIVE UserTotalSeconds(_, _)
UserTotalSeconds(rows, records) ==
    IF records = <<>> THEN 0
    ELSE rows[records[1]].duration_seconds + UserTotalSeconds(rows, Tail(records))

\* total_geral_seconds_sheet += user_total_seconds, over the names
RECURSIVE TotalGeralSeconds(_)
TotalGeralSeconds(groups) ==
    IF groups = {} THEN 0
    ELSE LET g == CHOOSE x \in groups : TRUE
         IN g.total_seconds + TotalGeralSeconds(groups \ {g})

\* status_command, section 1: the rows of the date by name, each name with
\* its records sorted and its total, and the total of all
SheetSection(rows, target_date) ==
    LET on == {i \in 1..Len(rows) : RowOnDate(rows[i], target_date)}
        names == {ColabName(rows[i]) : i \in on}
        Group(name) ==
            LET records == SortRecords(rows,
                               Ascending({i \in on : ColabName(rows[i]) = name}))
            IN [name |-> name,
                records |-> records,
                total_seconds |-> UserTotalSeconds(rows, records),
                total |-> DurationText(UserTotalSeconds(rows, records))]
        groups == {Group(name) : name \in names}
    IN IF on = {} THEN NoSection
       ELSE [found |-> TRUE,
             groups |-> groups,
             total_geral_seconds |-> TotalGeralSeconds(groups),
             total_geral |-> DurationText(TotalGeralSeconds(groups))]

\* what worksheet.get_all_values() can do: return, raise an APIError, raise
\* another exception
ReadOutcomes == {"ok", "api", "fault"}

\* a report that lists every share of the registry
StatusListedAll(d, now) == d

\* status_command: the shares listed as active now
StatusListed(d, now) == {e \in d : ~(now - e.last_update > inactive_limit)}

\* status_command: what the report is built from
StatusReply(worksheet, read, rows, target_date, d, now) ==
    [sheet |-> IF worksheet = "none" THEN "unavailable"
               ELSE IF read = "ok" THEN "rows"
               ELSE IF read = "api" THEN "api_error"
               ELSE "error",
     target |-> <<target_date>>,
     section |-> IF worksheet # "none" /\ read = "ok"
                 THEN SheetSection(rows, target_date) ELSE NoSection,
     live |-> StatusListed(d, now)]

\* the dates a /status argument names: the dates of the instants of the
\* model in the display zone, and the day before them
ArgDates == {Today(t) : t \in Instants} \cup {Today(InstantAt(1)) - 1}

status_frame == <<clock, active_shares, fs, pc, ledger, closed, faults>>

\* the argument is no date: the command answers so and waits for the send
StatusBadDate ==
    /\ pc = "idle"
    /\ st_pc = "none"
    /\ events < MaxEvents
    /\ events' = events + 1
    /\ st_pc' = "date_reply"
    /\ st_reply' = [NoReply EXCEPT !.target = <<Today(clock)>>]
    /\ UNCHANGED gs_worksheet
    /\ UNCHANGED status_frame
    /\ UNCHANGED locals

\* that send raised: the exception ends the command
StatusDateReplyFails ==
    /\ pc = "idle"
    /\ st_pc = "date_reply"
    /\ st_pc' = "none"
    /\ UNCHANGED <<st_reply, gs_worksheet, events>>
    /\ UNCHANGED status_frame
    /\ UNCHANGED locals

\* a report that takes the inactive shares it meets out of the registry
StatusReportEvicts ==
    /\ pc = "idle"
    /\ \/ st_pc = "none" /\ events < MaxEvents /\ events' = events + 1
       \/ st_pc = "date_reply" /\ events' = events
    /\ \E probe_ok \in BOOLEAN, setups \in [1..(max_retries + 1) -> BOOLEAN],
          read \in ReadOutcomes,
          target_date \in IF st_pc = "date_reply" THEN {st_reply.target[1]}
                          ELSE {Today(clock)} \cup ArgDates :
          /\ gs_worksheet' = GetWorksheetWithRetry(gs_worksheet, probe_ok, setups)
          /\ st_reply' = StatusReply(gs_worksheet', read, ledger, target_date,
                                     active_shares, clock)
    /\ st_pc' = "send"
    /\ active_shares' = StatusListed(active_shares, clock)
    /\ UNCHANGED <<clock, fs, pc, ledger, closed, faults>>
    /\ UNCHANGED locals

\* the sheet is read, the registry is listed and the report is built, up to
\* the await of the send
StatusReport ==
    /\ pc = "idle"
    /\ \/ st_pc = "none" /\ events < MaxEvents /\ events' = events + 1
       \/ st_pc = "date_reply" /\ events' = events
    /\ \E probe_ok \in BOOLEAN, setups \in [1..(max_retries + 1) -> BOOLEAN],
          read \in ReadOutcomes,
          target_date \in IF st_pc = "date_reply" THEN {st_reply.target[1]}
                          ELSE {Today(clock)} \cup ArgDates :
          /\ gs_worksheet' = GetWorksheetWithRetry(gs_worksheet, probe_ok, setups)
          /\ st_reply' = StatusReply(gs_worksheet', read, ledger, target_date,
                                     active_shares, clock)
    /\ st_pc' = "send"
    /\ UNCHANGED status_frame
    /\ UNCHANGED locals

\* the send returned, or it raised and the plain text is sent
StatusSent ==
    /\ pc = "idle"
    /\ st_pc = "send"
    /\ \/ st_pc' = "none" /\ st_reply' = NoReply
       \/ st_pc' = "send_plain" /\ st_reply' = st_reply
    /\ UNCHANGED <<gs_worksheet, events>>
    /\ UNCHANGED status_frame
    /\ UNCHANGED locals

\* the second send returned or raised: the command returns
StatusSentPlain ==
    /\ pc = "idle"
    /\ st_pc = "send_plain"
    /\ st_pc' = "none"
    /\ st_reply' = NoReply
    /\ UNCHANGED <<gs_worksheet, events>>
    /\ UNCHANGED status_frame
    /\ UNCHANGED locals

----------------------------------------------------------------------------
(* save_state(active_shares, STATE_FILENAME), the last call of a callback *)

save_frame == <<clock, active_shares, op, share_key, now_utc, row_data, attempt,
                tried, success, gs_worksheet, ledger, pre, pre_ledger, closed>>

\* a save_state that moves the shares out of the registry it was given
\* instead of working on a deep copy
SavePrepareDrains ==
    /\ UNCHANGED status_vars
    /\ pc = "save_prepare"
    /\ prev_file' = fs[STATE_FILENAME]
    /\ data_to_save' = PrepareData(active_shares)
    /\ active_shares' = {}
    /\ pc' = "save_open"
    /\ UNCHANGED <<clock, fs, op, share_key, now_utc, row_data, attempt, tried,
                   success, gs_worksheet, ledger, pre, pre_ledger, closed, faults,
                   events>>

\* the deep copy and its conversion; an exception here returns at once
SavePrepare ==
    /\ UNCHANGED status_vars
    /\ pc = "save_prepare"
    /\ prev_file' = fs[STATE_FILENAME]
    /\ \/ /\ data_to_save' = PrepareData(active_shares)
          /\ pc' = "save_open"
          /\ faults' = faults
       \/ /\ faults < MaxFaults
          /\ faults' = faults + 1
          /\ data_to_save' = data_to_save
          /\ pc' = "done"
    /\ UNCHANGED fs
    /\ UNCHANGED save_frame
    /\ UNCHANGED events

\* open(temp_filename, 'w')
SaveOpen ==
    /\ UNCHANGED status_vars
    /\ pc = "save_open"
    /\ \/ /\ fs' = OpenTemp(fs, STATE_FILENAME)
          /\ pc' = "save_dump"
          /\ faults' = faults
       \/ /\ faults < MaxFaults
          /\ faults' = faults + 1
          /\ fs' = fs
          /\ pc' = "save_finally"
    /\ UNCHANGED <<data_to_save, prev_file>>
    /\ UNCHANGED save_frame
    /\ UNCHANGED events

\* json.dump(data_to_save, f, ...) and the end of the with block
SaveDump ==
    /\ UNCHANGED status_vars
    /\ pc = "save_dump"
    /\ \/ /\ fs' = DumpTemp(fs, STATE_FILENAME, data_to_save)
          /\ pc' = "save_replace"
          /\ faults' = faults
       \/ /\ faults < MaxFaults
          /\ faults' = faults + 1
          /\ fs' = fs
          /\ pc' = "save_finally"
    /\ UNCHANGED <<data_to_save, prev_file>>
    /\ UNCHANGED save_frame
    /\ UNCHANGED events

\* os.replace(temp_filename, filename)
SaveReplace ==
    /\ UNCHANGED status_vars
    /\ pc = "save_replace"
    /\ \/ /\ fs' = Replace(fs, STATE_FILENAME)
          /\ faults' = faults
       \/ /\ faults < MaxFaults
          /\ faults' = faults + 1
          /\ fs' = fs
    /\ pc' = "save_finally"
    /\ UNCHANGED <<data_to_save, prev_file>>
    /\ UNCHANGED save_frame
    /\ UNCHANGED events

\* finally: the temp file is removed if it is still there; an OSError of
\* os.remove is logged
SaveFinally ==
    /\ UNCHANGED status_vars
    /\ pc = "save_finally"
    /\ \/ /\ fs' = IF fs[TempFilename(STATE_FILENAME)].kind # "absent"
                   THEN RemoveTemp(fs, STATE_FILENAME) ELSE fs
          /\ faults' = faults
       \/ /\ fs[TempFilename(STATE_FILENAME)].kind # "absent"
          /\ faults < MaxFaults
          /\ faults' = faults + 1
          /\ fs' = fs
    /\ pc' = "done"
    /\ UNCHANGED <<data_to_save, prev_file>>
    /\ UNCHANGED save_frame
    /\ UNCHANGED events

----------------------------------------------------------------------------
(* The callback returns to the event loop *)

Return ==
    /\ UNCHANGED status_vars
    /\ pc = "done"
    /\ pc' = "idle"
    /\ ResetLocals
    /\ UNCHANGED <<clock, active_shares, fs, gs_worksheet, ledger, closed, faults>>
    /\ UNCHANGED events

\* the process is killed and started again: main() up to the load
Crash ==
    /\ st_pc' = "none"
    /\ st_reply' = NoReply
    /\ faults < MaxFaults
    /\ faults' = faults + 1
    /\ active_shares' = {}
    /\ gs_worksheet' \in {"ws", "none"}
    /\ closed' = {}
    /\ pc' = "load"
    /\ ResetLocals
    /\ UNCHANGED <<clock, fs, ledger>>
    /\ UNCHANGED events

\* main: active_shares = load_state(STATE_FILENAME); an exception load_state
\* lets out ends main before the application is built
Load ==
    /\ UNCHANGED status_vars
    /\ pc = "load"
    /\ IF LoadPropagates(fs[STATE_FILENAME])
       THEN /\ pc' = "fault"
            /\ UNCHANGED active_shares
       ELSE /\ pc' = "idle"
            /\ active_shares' = LoadState(fs[STATE_FILENAME])
    /\ UNCHANGED <<clock, fs, gs_worksheet, ledger, closed, faults, events>>
    /\ UNCHANGED locals

Next ==
    \/ ClockChange
    \/ ClockSetBack
    \/ \E k \in Keys : Open(k)
    \/ \E k \in Keys : EditedIgnored(k)
    \/ \E k \in Keys : Heartbeat(k)
    \/ \E k \in Keys : CloseBegin(k)
    \/ GetWorksheet
    \/ AppendRow
    \/ CloseRemove
    \/ Sweep
    \/ SavePrepare
    \/ SaveOpen
    \/ SaveDump
    \/ SaveReplace
    \/ SaveFinally
    \/ Return
    \/ Crash
    \/ Load

Spec == Init /\ [][Next]_vars

----------------------------------------------------------------------------
(* The bot with its scheduling: a callback that has started runs to its end *)
(* (no step of it waits for another callback, the retries are bounded), and *)
(* the job queue runs the cleanup job again every interval                  *)

FairNext == Next \/ TimerSweep

\* the next step of the callback that runs (pc tells which one it is)
RunOn ==
    \/ GetWorksheet
    \/ AppendRow
    \/ CloseRemove
    \/ SavePrepare
    \/ SaveOpen
    \/ SaveDump
    \/ SaveReplace
    \/ SaveFinally
    \/ Return
    \/ Load

FairSpec ==
    /\ Init
    /\ [][FairNext]_vars
    /\ WF_vars(TimerSweep)
    /\ WF_vars(RunOn)

----------------------------------------------------------------------------
(* The start of main() alone, over the snapshot files it can find *)

LoadInit ==
    /\ clock = InstantAt(1)
    /\ fs \in {[p \in Paths |-> IF p = STATE_FILENAME THEN f ELSE Absent] :
                   f \in SnapshotFiles}
    /\ active_shares = {}
    /\ pc = "load"
    /\ op = "none"
    /\ share_key = NoKey
    /\ now_utc = NoTime
    /\ row_data = NoRow
    /\ attempt = 0
    /\ tried = <<>>
    /\ success = "none"
    /\ gs_worksheet \in {"ws", "none"}
    /\ ledger = <<>>
    /\ data_to_save = <<>>
    /\ pre = {}
    /\ pre_ledger = <<>>
    /\ prev_file = Absent
    /\ closed = {}
    /\ faults = 0
    /\ events = 0
    /\ st_pc = "none"
    /\ st_reply = NoReply

LoadNext == Load

LoadSpec == LoadInit /\ [][LoadNext]_vars

----------------------------------------------------------------------------
(* status_command and the cleanup job, from the registries the bot can hold *)

\* a share opened at the first instant, with each instant as its last update
SampleShares(k) ==
    {[NewShare(k, Sender(k[2]), InstantAt(1)) EXCEPT !.last_update = t] :
         t \in Instants}

SampleStores ==
    {d \in SUBSET (UNION {SampleShares(k) : k \in Keys}) :
         \A e1 \in d : \A e2 \in d : e1.key = e2.key => e1 = e2}

StatusInit ==
    /\ clock \in Instants
    /\ active_shares \in SampleStores
    /\ \A e \in active_shares : e.last_update <= clock
    /\ fs = [p \in Paths |-> IF p = STATE_FILENAME
                             THEN Json(PrepareData(active_shares)) ELSE Absent]
    /\ pc = "idle"
    /\ op = "none"
    /\ share_key = NoKey
    /\ now_utc = NoTime
    /\ row_data = NoRow
    /\ attempt = 0
    /\ tried = <<>>
    /\ success = "none"
    /\ gs_worksheet \in {"ws", "none"}
    /\ ledger = <<>>
    /\ data_to_save = <<>>
    /\ pre = {}
    /\ pre_ledger = <<>>
    /\ prev_file = Absent
    /\ closed = {}
    /\ faults = 0
    /\ events = 0
    /\ st_pc = "none"
    /\ st_reply = NoReply

StatusNext ==
    \/ StatusBadDate
    \/ StatusDateReplyFails
    \/ StatusReport
    \/ StatusSent
    \/ StatusSentPlain
    \/ ClockChange
    \/ Sweep
    \/ SavePrepare
    \/ SaveOpen
    \/ SaveDump
    \/ SaveReplace
    \/ SaveFinally
    \/ Return

StatusSpec == StatusInit /\ [][StatusNext]_vars

----------------------------------------------------------------------------
(* status_command alone, over the sheets it can read *)

\* a share of message m that started at instant start_time
ShareAt(m, start_time) == NewShare(<<TARGET_GROUP_ID, m>>, Sender(m), start_time)

\* rows as handle_edited_location writes them: two of Bob on one evening, the
\* later one written first, one of alice the same evening, one of Bob the
\* next morning, one of alice that starts on the next day in UTC but late on
\* that evening's next day in the display zone; and a row whose Username cell
\* was blanked by hand
SampleRows ==
    {RowData(ShareAt(12, 10 * MINUTE), 20 * MINUTE),
     RowData(ShareAt(12, 0), 15 * MINUTE),
     RowData(ShareAt(5, 25 * MINUTE), 26 * MINUTE),
     RowData(ShareAt(12, inactive_limit + 10 * MINUTE), inactive_limit + 15 * MINUTE),
     RowData(ShareAt(5, 26 * HOUR), 27 * HOUR),
     [RowData(ShareAt(5, 5 * MINUTE), 6 * MINUTE) EXCEPT !.username = ""]}

\* worksheet.get_all_values() without the header row
SampleLedgers == UNION {[1..n -> SampleRows] : n \in 0..MaxRows}

ReportInit ==
    /\ clock \in Instants
    /\ fs = [p \in Paths |-> Absent]
    /\ active_shares = {}
    /\ pc = "idle"
    /\ op = "none"
    /\ share_key = NoKey
    /\ now_utc = NoTime
    /\ row_data = NoRow
    /\ attempt = 0
    /\ tried = <<>>
    /\ success = "none"
    /\ gs_worksheet \in {"ws", "none"}
    /\ ledger \in SampleLedgers
    /\ data_to_save = <<>>
    /\ pre = {}
    /\ pre_ledger = <<>>
    /\ prev_file = Absent
    /\ closed = {}
    /\ faults = 0
    /\ events = MaxEvents - 1      \* the command is the last callback counted
    /\ st_pc = "none"
    /\ st_reply = NoReply

ReportNext ==
    \/ StatusBadDate
    \/ StatusDateReplyFails
    \/ StatusReport
    \/ StatusSent
    \/ StatusSentPlain

ReportSpec == ReportInit /\ [][ReportNext]_vars

----------------------------------------------------------------------------
(* The end of status_command alone: the joined report is cut to the size of *)
(* a message and sent.  What the report says does not matter to the cut, so *)
(* the texts differ in their length, around the limit; st_reply holds the   *)
(* joined text and the text to send                                         *)

\* "\n(...)"
TruncationMarker == <<"\n", "(", ".", ".", ".", ")">>

\* a cut at the limit itself, the marker added after it
TruncateAtLimit(final_reply) ==
    IF Len(final_reply) > MessageLimit
    THEN SubSeq(final_reply, 1, MessageLimit) \o TruncationMarker
    ELSE final_reply

\* final_reply[:4090] + "\n(...)" when len(final_reply) > 4096
Truncate(final_reply) ==
    IF Len(final_reply) > MessageLimit
    THEN SubSeq(final_reply, 1, CutAt) \o TruncationMarker
    ELSE final_reply

\* the characters of the markup; the backquote is written by its name
MarkupChars == {"*", "_", "backquote"}

\* final_reply.replace(...): the asterisks, underscores and backquotes of the
\* markup are taken out
NotMarkup(c) == c \notin MarkupChars

PlainText(text) == SelectSeq(text, NotMarkup)

\* a joined report of n characters: digits, with a markup character at every
\* seventh place
ReportText(n) ==
    [i \in 1..n |-> IF i % 7 = 0 THEN "*" ELSE DigitChars[(i % 10) + 1]]

ReportLengths == (MessageLimit - MaxMargin)..(MessageLimit + MaxMargin)

TruncInit ==
    /\ clock = InstantAt(1)
    /\ fs = [p \in Paths |-> Absent]
    /\ active_shares = {}
    /\ pc = "idle"
    /\ op = "none"
    /\ share_key = NoKey
    /\ now_utc = NoTime
    /\ row_data = NoRow
    /\ attempt = 0
    /\ tried = <<>>
    /\ success = "none"
    /\ gs_worksheet = "ws"
    /\ ledger = <<>>
    /\ data_to_save = <<>>
    /\ pre = {}
    /\ pre_ledger = <<>>
    /\ prev_file = Absent
    /\ closed = {}
    /\ faults = 0
    /\ events = 1
    /\ st_pc = "join"
    /\ \E n \in ReportLengths :
           st_reply = [joined |-> ReportText(n), final_reply |-> ReportText(n),
                       sent |-> <<>>]

trunc_frame == <<clock, active_shares, fs, pc, op, share_key, now_utc, row_data,
                 attempt, tried, success, gs_worksheet, ledger, data_to_save, pre,
                 pre_ledger, prev_file, closed, faults, events>>

\* if len(final_reply) > 4096: the cut, up to the await of the send
StatusTruncate ==
    /\ st_pc = "join"
    /\ st_reply' = [st_reply EXCEPT !.final_reply = Truncate(st_reply.joined),
                                    !.sent = Truncate(st_reply.joined)]
    /\ st_pc' = "send"
    /\ UNCHANGED trunc_frame

\* reply_text(final_reply, parse_mode=MARKDOWN) returned, or it raised and the
\* plain text is sent
StatusSendText ==
    /\ st_pc = "send"
    /\ \/ st_pc' = "none" /\ st_reply' = st_reply
       \/ /\ st_pc' = "send_plain"
          /\ st_reply' = [st_reply EXCEPT !.sent = PlainText(st_reply.final_reply)]
    /\ UNCHANGED trunc_frame

\* the second send returned or raised: the command returns
StatusSendPlain ==
    /\ st_pc = "send_plain"
    /\ st_pc' = "none"
    /\ st_reply' = st_reply
    /\ UNCHANGED trunc_frame

TruncNext == StatusTruncate \/ StatusSendText \/ StatusSendPlain

TruncSpec == TruncInit /\ [][TruncNext]_vars

----------------------------------------------------------------------------
(* get_worksheet_with_retry alone, step by step: the probe of the handle    *)
(* the bot holds, then the loop of setup_google_sheets calls.  pre holds    *)
(* what the call finds: the handle, and what the sheet service will answer  *)
(* to the probe and to each setup call asked of it                          *)

\* a loop of one more setup call
SetupCallsOneMore == max_retries + 2

\* for attempt in range(max_retries + 1)
SetupCalls == max_retries + 1

\* the answers of the service to setup calls: one more than the loop can ask
SetupAnswers == [1..(max_retries + 2) -> BOOLEAN]

HandleInit ==
    /\ clock = InstantAt(1)
    /\ fs = [p \in Paths |-> Absent]
    /\ active_shares = {}
    /\ pc = "hw_probe"
    /\ op = "none"
    /\ share_key = NoKey
    /\ now_utc = NoTime
    /\ row_data = NoRow
    /\ attempt = 0
    /\ tried = <<>>
    /\ success = "none"
    /\ gs_worksheet \in {"ws", "none"}
    /\ ledger = <<>>
    /\ data_to_save = <<>>
    /\ \E b \in BOOLEAN, a \in SetupAnswers :
           pre = [handle |-> gs_worksheet, probe_ok |-> b, setups |-> a]
    /\ pre_ledger = <<>>
    /\ prev_file = Absent
    /\ closed = {}
    /\ faults = 0
    /\ events = 0
    /\ st_pc = "none"
    /\ st_reply = NoReply

handle_frame == <<clock, active_shares, fs, op, share_key, now_utc, row_data,
                  success, ledger, data_to_save, pre, pre_ledger, prev_file,
                  closed, faults, events, st_pc, st_reply>>

\* if gs_worksheet and gs_client: the probe acell('A1'); a handle that passes
\* is returned, one that fails is dropped
HandleProbe ==
    /\ pc = "hw_probe"
    /\ IF gs_worksheet = "ws"
       THEN IF pre.probe_ok
            THEN gs_worksheet' = "ws" /\ pc' = "hw_done"
            ELSE gs_worksheet' = "none" /\ pc' = "hw_setup"
       ELSE gs_worksheet' = gs_worksheet /\ pc' = "hw_setup"
    /\ UNCHANGED <<attempt, tried>>
    /\ UNCHANGED handle_frame

\* one pass of the loop: setup_google_sheets() sets the handle and the loop
\* returns it, or leaves no handle and the loop sleeps and goes on, or ends
HandleSetup ==
    /\ pc = "hw_setup"
    /\ attempt < SetupCalls
    /\ tried' = Append(tried, pre.setups[attempt + 1])
    /\ IF pre.setups[attempt + 1]
       THEN /\ gs_worksheet' = "ws"
            /\ pc' = "hw_done"
            /\ attempt' = attempt
       ELSE /\ gs_worksheet' = "none"
            /\ attempt' = attempt + 1
            /\ pc' = IF attempt + 1 < SetupCalls THEN "hw_setup" ELSE "hw_done"
    /\ UNCHANGED handle_frame

HandleNext == HandleProbe \/ HandleSetup

HandleSpec == HandleInit /\ [][HandleNext]_vars

----------------------------------------------------------------------------
(* The end of a share alone, with the time its append takes: the handler    *)
(* blocks in time.sleep(delay) before each retry, so the wall clock moves   *)
(* while it runs.  The shares it finds were opened at any of the instants,  *)
(* before or (after a set-back of the clock) later than the clock shows     *)

CloseStores ==
    {d \in SUBSET {ShareAt(m, t) : m \in MessageIds, t \in Instants} :
         \A e1 \in d : \A e2 \in d : e1.key = e2.key => e1 = e2}

CloseInit ==
    /\ clock \in Instants
    /\ active_shares \in CloseStores
    /\ fs = [p \in Paths |-> IF p = STATE_FILENAME
                             THEN Json(PrepareData(active_shares)) ELSE Absent]
    /\ pc = "idle"
    /\ op = "none"
    /\ share_key = NoKey
    /\ now_utc = NoTime
    /\ row_data = NoRow
    /\ attempt = 0
    /\ tried = <<>>
    /\ success = "none"
    /\ gs_worksheet \in {"ws", "none"}
    /\ ledger = <<>>
    /\ data_to_save = <<>>
    /\ pre = {}
    /\ pre_ledger = <<>>
    /\ prev_file = Absent
    /\ closed = {}
    /\ faults = 0
    /\ events = 0
    /\ st_pc = "none"
    /\ st_reply = NoReply

\* the sleeps of the running append are over: one per failed attempt
Slept == clock - now_utc >= Len(tried) * delay * SEC

\* append_row_with_retry: time.sleep(delay) after a transient failure with
\* retries left; the sleep lasts the delay or a tick more
RetryDelay ==
    /\ UNCHANGED status_vars
    /\ pc = "reget_ws"
    /\ ~Slept
    /\ \E elapsed \in {delay * SEC, delay * SEC + 1} : clock' = clock + elapsed
    /\ UNCHANGED <<active_shares, fs, pc, gs_worksheet, ledger, closed, faults,
                   events>>
    /\ UNCHANGED locals

\* append_row_with_retry: get_worksheet_with_retry() at its start, and after
\* the sleep before a retry
CloseGetWorksheet ==
    /\ pc = "reget_ws" => Slept
    /\ GetWorksheet

CloseNext ==
    \/ \E k \in Keys : CloseBegin(k)
    \/ CloseGetWorksheet
    \/ RetryDelay
    \/ AppendRow
    \/ CloseRemove
    \/ SavePrepare
    \/ SaveOpen
    \/ SaveDump
    \/ SaveReplace
    \/ SaveFinally
    \/ Return

CloseSpec == CloseInit /\ [][CloseNext]_vars

----------------------------------------------------------------------------
(* Properties *)

InCallback(o) == op = o /\ pc # "idle"

Others(d, k) == {e \in d : e.key # k}

\* C1: the registry holds at most one share per key, and an open sets the
\* share of its key to one that starts now, replacing the share that was under
\* the key and leaving every other share as it was
C1_OnePerKeyOpenReplaces ==
    /\ \A e1 \in active_shares : \A e2 \in active_shares :
           e1.key = e2.key => e1 = e2
    /\ InCallback("open") =>
           /\ Has(active_shares, share_key)
           /\ Get(active_shares, share_key).start_time = now_utc
           /\ Get(active_shares, share_key).last_update = now_utc
           /\ Others(active_shares, share_key) = Others(pre, share_key)
           /\ Cardinality(active_shares) =
                  Cardinality(pre) + (IF Has(pre, share_key) THEN 0 ELSE 1)

\* an open of a key that held an older share has run to its end
C1_Witness ==
    /\ op = "open" /\ pc = "done"
    /\ Has(pre, share_key)
    /\ Get(pre, share_key).start_time < now_utc
    /\ Cardinality(active_shares) = 2

\* C2: a sweep at now removes the shares with now - last_update above the
\* limit and keeps every other share, the ones exactly at the limit too, as
\* they were
C2_SweepRemovesExactlyInactive ==
    InCallback("sweep") =>
        /\ \A e \in pre :
               IF now_utc - e.last_update > MAX_INACTIVE_HOURS * 3600 * TicksPerSec
               THEN ~Has(active_shares, e.key)
               ELSE e \in active_shares
        /\ active_shares \subseteq pre

\* a sweep removed one share and kept one that was exactly at the limit
C2_Witness ==
    /\ op = "sweep" /\ pc = "done"
    /\ \E e \in pre :
           /\ now_utc - e.last_update = MAX_INACTIVE_HOURS * 3600 * TicksPerSec
           /\ e \in active_shares
    /\ \E e \in pre : ~Has(active_shares, e.key)

\* C3: no step of a sweep appends to the sheet or tries to
C3_SweepNeverAppends ==
    [][(op = "sweep" \/ op' = "sweep") =>
           /\ ledger' = ledger
           /\ tried' = tried
           /\ pc' \notin {"get_ws", "append", "reget_ws", "remove"}]_vars

\* a share that was opened and updated later has been removed by a sweep and
\* the sheet has no row
C3_Witness ==
    /\ op = "sweep" /\ pc = "done"
    /\ \E e \in pre : /\ ~Has(active_shares, e.key)
                      /\ e.last_update > e.start_time
    /\ ledger = <<>>

EditOps == {"edit", "heartbeat", "close"}

\* C4: a close removes the share of its key; an edit event for a key closed
\* and not opened since finds no share, and changes neither the registry nor
\* the sheet nor the files
C4_CloseThenCloseIgnored ==
    /\ [](InCallback("close") /\ pc \in {"save_prepare", "save_open", "save_dump",
                                         "save_replace", "save_finally", "done"}
              => Has(pre, share_key) /\ ~Has(active_shares, share_key))
    /\ [](\A k \in closed : ~Has(active_shares, k))
    /\ [][(pc = "idle" /\ op' \in EditOps /\ share_key' \in closed) =>
              /\ op' = "edit"
              /\ pc' = "done"
              /\ active_shares' = active_shares
              /\ ledger' = ledger
              /\ fs' = fs]_vars

\* the second close of a key has been handled
C4_Witness ==
    /\ op = "edit" /\ pc = "done"
    /\ share_key \in closed
    /\ ~Has(active_shares, share_key)

AllTransient(t) == \A i \in 1..Len(t) : t[i] = "transient"

\* the append has returned to handle_edited_location
AppendReturned == pc = "remove"

\* C5 as stated: an append whose attempts all fail transiently makes exactly
\* max_retries + 1 attempts and returns failure
C5_AsStated ==
    (AppendReturned /\ tried # <<>> /\ AllTransient(tried)) =>
        (Len(tried) = max_retries + 1 /\ success = "false")

\* C5: an append whose attempts all fail transiently returns failure after at
\* most max_retries + 1 attempts, and after exactly max_retries + 1 when the
\* worksheet was obtained again before each retry
C5_RetryBound ==
    /\ Len(tried) <= max_retries + 1
    /\ (AppendReturned /\ tried # <<>> /\ AllTransient(tried)) =>
           /\ success = "false"
           /\ gs_worksheet = "ws" => Len(tried) = max_retries + 1
           /\ gs_worksheet = "none" => Len(tried) <= max_retries

\* three attempts failed transiently and the append returned failure
C5_Witness ==
    /\ AppendReturned
    /\ tried = <<"transient", "transient", "transient">>
    /\ success = "false"

\* C6: an attempt that fails with a permanent API error or with another
\* exception is the last one, and the append returns failure
C6_NoRetryOnPermanent ==
    \A i \in 1..Len(tried) :
        tried[i] \in {"permanent", "fault"} =>
            /\ i = Len(tried)
            /\ AppendReturned
            /\ success = "false"

\* the first attempt failed permanently with retries left and the append returned
C6_Witness ==
    /\ AppendReturned
    /\ Len(tried) = 1
    /\ tried[1] \in {"permanent", "fault"}
    /\ attempt < max_retries
    /\ success = "false"

AfterRemove == pc \in {"save_prepare", "save_open", "save_dump", "save_replace",
                       "save_finally", "done"}

\* C7: when the append returned failure the close still deletes the share and
\* saves, so the share is in the registry no more and the sheet has no row for it
C7_RemovedThoughAppendFailed ==
    (InCallback("close") /\ success = "false" /\ AfterRemove) =>
        /\ Has(pre, share_key)
        /\ ~Has(active_shares, share_key)
        /\ ledger = pre_ledger
        /\ (pc = "done" /\ faults = 0) =>
               fs[STATE_FILENAME] = Json(PrepareData(active_shares))

\* a close whose append failed has ended: the share is gone, the snapshot is
\* written without it and the sheet is as before
C7_Witness ==
    /\ op = "close" /\ pc = "done"
    /\ success = "false"
    /\ Has(pre, share_key)
    /\ ~Has(active_shares, share_key)
    /\ ledger = pre_ledger
    /\ fs[STATE_FILENAME] = Json(PrepareData(active_shares))

\* n is the number of whole seconds from instant a to instant b, zero when b
\* is before a
IsWholeSecondsBetween(n, a, b) ==
    IF b < a THEN n = 0
    ELSE n * TicksPerSec <= b - a /\ b - a < (n + 1) * TicksPerSec

\* C8: the row of a close carries the share's user and name and the whole
\* seconds from its start to the instant of the close, never negative, whatever
\* its last update; 25 minutes after the start that is 1500; the row is what the
\* sheet receives and the key is gone when the close ends
C8_RowOfClose ==
    InCallback("close") =>
        LET share == Get(pre, share_key)
        IN /\ row_data.user_id = share.user_id
           /\ row_data.username = share.username
           /\ IsWholeSecondsBetween(row_data.duration_seconds, share.start_time, now_utc)
           /\ row_data.duration_seconds >= 0
           /\ now_utc - share.start_time = 25 * 60 * TicksPerSec =>
                  row_data.duration_seconds = 1500
           /\ ledger \in {pre_ledger, Append(pre_ledger, row_data)}
           /\ pc = "done" => ~Has(active_shares, share_key)

\* opened at T0, updated ten minutes later, closed 25 minutes after T0
C8_Witness ==
    /\ op = "close" /\ pc = "done"
    /\ Get(pre, share_key).start_time = 0
    /\ Get(pre, share_key).last_update = 10 * 60 * TicksPerSec
    /\ now_utc = 25 * 60 * TicksPerSec
    /\ row_data.duration_seconds = 1500
    /\ ledger = Append(pre_ledger, row_data)
    /\ ~Has(active_shares, share_key)

\* save_state has replaced the snapshot file by the object it built
SaveSucceeded ==
    /\ pc = "save_finally"
    /\ fs[STATE_FILENAME] = Json(data_to_save)
    /\ fs[TEMP_FILENAME] = Absent

\* C9: loading the snapshot a successful save wrote gives the registry back:
\* the same keys, each with the same user, name, start and last update
C9_RoundTrip ==
    SaveSucceeded =>
        /\ DictKeys(LoadState(fs[STATE_FILENAME])) = DictKeys(active_shares)
        /\ \A e \in active_shares :
               \E l \in LoadState(fs[STATE_FILENAME]) :
                   /\ l.key = e.key
                   /\ l.user_id = e.user_id
                   /\ l.username = e.username
                   /\ l.start_time = e.start_time
                   /\ l.last_update = e.last_update
        /\ Cardinality(LoadState(fs[STATE_FILENAME])) = Cardinality(active_shares)

\* a registry of two shares, one with a fraction of a second in its
\* timestamps, has been saved
C9_Witness ==
    /\ SaveSucceeded
    /\ Cardinality(active_shares) = 2
    /\ \E e \in active_shares : e.start_time % TicksPerSec # 0
    /\ \E e \in active_shares : e.last_update > e.start_time

InSave == pc \in {"save_open", "save_dump", "save_replace", "save_finally"}

\* C10: the snapshot file never holds a partial write; while save_state runs it
\* holds the previous snapshot or the new one, the previous one until the
\* replace and whenever the save failed
C10_SnapshotNeverPartial ==
    /\ fs[STATE_FILENAME].kind \in {"absent", "json"}
    /\ InSave => fs[STATE_FILENAME] \in {prev_file, Json(data_to_save)}
    /\ pc \in {"save_open", "save_dump", "save_replace"} =>
           fs[STATE_FILENAME] = prev_file
    /\ (pc = "save_finally" /\ fs[TEMP_FILENAME] # Absent) =>
           fs[STATE_FILENAME] = prev_file

\* the write of the temp file failed half way: the snapshot file still holds
\* the previous snapshot, which differs from the new one
C10_Witness ==
    /\ pc = "save_finally"
    /\ fs[TEMP_FILENAME] = Partial
    /\ fs[STATE_FILENAME].kind = "json"
    /\ fs[STATE_FILENAME] = prev_file
    /\ prev_file # Json(data_to_save)

----------------------------------------------------------------------------
(* Properties of the load, stated over LoadSpec *)

\* main has loaded the snapshot file and gone on
Loaded == pc = "idle"

\* C11: when the snapshot file is absent, or is there and is not the JSON of a
\* snapshot as a whole, the load returns an empty registry and lets no
\* exception out
C11_NoSnapshotLoadsEmpty ==
    /\ pc # "fault"
    /\ (Loaded /\ fs[STATE_FILENAME].kind \in {"absent", "partial", "array"}) =>
           active_shares = {}

\* a file whose text breaks off after two items has been loaded
C11_Witness ==
    /\ Loaded
    /\ fs[STATE_FILENAME].kind = "partial"
    /\ Len(fs[STATE_FILENAME].entries) = 2
    /\ active_shares = {}

\* the key is not <int>:<int>, or a timestamp text is no ISO timestamp
Malformed(j) ==
    \/ ~(Len(Split(j.key)) = 2 /\ IsIntStr(Split(j.key)[1]) /\ IsIntStr(Split(j.key)[2]))
    \/ ~IsIsoText(j.start_time)
    \/ ~IsIsoText(j.last_update)

\* the share e is the item j restored: its key as a pair of numbers, its two
\* times as the instants the texts name
Restores(e, j) ==
    /\ e.key = <<StrToInt(Split(j.key)[1]), StrToInt(Split(j.key)[2])>>
    /\ e.user_id = j.user_id
    /\ e.username = j.username
    /\ e.start_time = FromIso(j.start_time)
    /\ e.last_update = FromIso(j.last_update)

SamePair(j1, j2) ==
    /\ StrToInt(Split(j1.key)[1]) = StrToInt(Split(j2.key)[1])
    /\ StrToInt(Split(j1.key)[2]) = StrToInt(Split(j2.key)[2])

Reverse(q) == [i \in 1..Len(q) |-> q[Len(q) + 1 - i]]

\* C12 as stated: the load of a file that parses returns exactly its
\* well-formed items, each restored, whatever their order
C12_AsStated ==
    (Loaded /\ fs[STATE_FILENAME].kind = "json") =>
        LET items == fs[STATE_FILENAME].entries
        IN /\ \A e \in active_shares :
                  \E i \in 1..Len(items) :
                      ~Malformed(items[i]) /\ Restores(e, items[i])
           /\ \A i \in 1..Len(items) :
                  ~Malformed(items[i]) =>
                      \E e \in active_shares : Restores(e, items[i])
           /\ LoadState(Json(Reverse(items))) = active_shares

\* C12: the load of a file that parses skips every malformed item and
\* restores every well-formed one, except that of the well-formed items whose
\* keys name the same pair of numbers only the last in the file is restored;
\* when no two of them name the same pair, the order of the file does not
\* matter
C12_MalformedSkipped ==
    (Loaded /\ fs[STATE_FILENAME].kind = "json") =>
        LET items == fs[STATE_FILENAME].entries
            Later(i) == {h \in (i + 1)..Len(items) :
                            ~Malformed(items[h]) /\ SamePair(items[h], items[i])}
        IN /\ \A e \in active_shares :
                  \E i \in 1..Len(items) :
                      ~Malformed(items[i]) /\ Restores(e, items[i])
           /\ \A i \in 1..Len(items) :
                  ~Malformed(items[i]) =>
                      ((\E e \in active_shares : Restores(e, items[i]))
                           <=> Later(i) = {})
           /\ (\A i \in 1..Len(items) : ~Malformed(items[i]) => Later(i) = {}) =>
                  LoadState(Json(Reverse(items))) = active_shares

\* a file of an item with a bad key, one with a bad timestamp and a good one
\* between them has been loaded: the registry holds the good one alone
C12_Witness ==
    /\ Loaded
    /\ fs[STATE_FILENAME].kind = "json"
    /\ LET items == fs[STATE_FILENAME].entries
       IN /\ Len(items) = 3
          /\ ~KeyParses(items[1].key)
          /\ ~Malformed(items[2])
          /\ KeyParses(items[3].key) /\ ~IsIsoText(items[3].last_update)
          /\ Cardinality(active_shares) = 1
          /\ \E e \in active_shares : Restores(e, items[2])

----------------------------------------------------------------------------
(* Properties of the running bot, stated over Spec *)

Saving == pc \in {"save_prepare", "save_open", "save_dump", "save_replace",
                  "save_finally"}

\* C13: a handler that changed the registry goes on to save_state before it
\* returns to the loop; so while the loop waits and nothing has failed so far
\* the snapshot file decodes to the registry, and a crash there leaves a file
\* from which the restart loads the same registry
C13_SnapshotFollowsRegistry ==
    /\ []((op \in {"open", "heartbeat", "close"} /\ pc # "idle"
               /\ active_shares # pre) => (Saving \/ pc = "done"))
    /\ []((pc \in {"idle", "done"} /\ faults = 0) =>
               LoadState(fs[STATE_FILENAME]) = active_shares)
    /\ [][(op' \in {"open", "heartbeat", "close"} /\ active_shares' # active_shares)
               => pc' = "save_prepare"]_vars
    /\ [][(pc = "idle" /\ faults = 0 /\ pc' = "load") =>
               LoadState(fs'[STATE_FILENAME]) = active_shares]_vars
    /\ [][(pc = "load" /\ pc' = "idle")
               => active_shares' = LoadState(fs[STATE_FILENAME])]_vars

\* two shares were opened and one was updated later; every save succeeded and
\* the loop waits
C13_Witness ==
    /\ pc = "idle"
    /\ faults = 0
    /\ Cardinality(active_shares) = 2
    /\ \E e \in active_shares : e.last_update > e.start_time
    /\ fs[STATE_FILENAME].kind = "json"
    /\ LoadState(fs[STATE_FILENAME]) = active_shares

\* C14: every share of the registry has its last update at or after its start,
\* also after a heartbeat handled at an instant before the start and after a
\* restart
C14_LastUpdateNotBeforeStart ==
    \A e \in active_shares : e.last_update >= e.start_time

\* C15: an edit event (a heartbeat or an end) for a key the registry does not
\* hold returns at once: no share is created, the registry, the sheet and the
\* files stay as they were, and the handler returns normally
C15_UnknownKeyIgnored ==
    /\ [](InCallback("edit") =>
              /\ ~Has(pre, share_key)
              /\ active_shares = pre
              /\ ledger = pre_ledger
              /\ pc = "done")
    /\ [][(pc = "idle" /\ op' \in EditOps /\ ~Has(active_shares, share_key')) =>
              /\ op' = "edit"
              /\ pc' = "done"
              /\ active_shares' = active_shares
              /\ fs' = fs
              /\ ledger' = ledger]_vars
    /\ [][(op = "edit" /\ pc' # "load") =>
              /\ pc' = "idle"
              /\ active_shares' = active_shares
              /\ fs' = fs]_vars

\* an edit for a key that was never opened has been handled while the
\* registry holds another share, which is in the snapshot
C15_Witness ==
    /\ op = "edit" /\ pc = "done"
    /\ share_key \notin closed
    /\ ~Has(active_shares, share_key)
    /\ Cardinality(active_shares) = 1
    /\ fs[STATE_FILENAME] = Json(PrepareData(active_shares))

----------------------------------------------------------------------------
(* Properties of status_command, stated over StatusSpec *)

\* C16: no step of a status command changes the registry or the files or
\* starts a save, whatever the read of the sheet did
C16_StatusReadsOnly ==
    [][st_pc' # st_pc =>
           /\ active_shares' = active_shares
           /\ fs' = fs
           /\ pc' = "idle"
           /\ data_to_save' = data_to_save]_vars

\* a report has been built while the registry holds an active share and an
\* inactive one and the read of the sheet failed; registry and snapshot agree
C16_Witness ==
    /\ st_pc = "send"
    /\ st_reply.sheet = "api_error"
    /\ Cardinality(active_shares) = 2
    /\ Cardinality(st_reply.live) = 1
    /\ fs[STATE_FILENAME] = Json(PrepareData(active_shares))

----------------------------------------------------------------------------
(* Properties of the cleanup job under its scheduling, stated over FairSpec *)

\* the share of key k has had no update for longer than the limit
Stale(k) ==
    /\ Has(active_shares, k)
    /\ clock - Get(active_shares, k).last_update > MAX_INACTIVE_HOURS * 3600 * TicksPerSec

\* C17: a share that has had no update for longer than the limit does not
\* stay: it is removed, unless an update or an open refreshes it or the clock
\* goes back before that; and when a run of the job ends, every share that was
\* past the limit at its start is gone
C17_StaleEventuallyRemoved ==
    /\ \A k \in Keys : Stale(k) ~> ~Stale(k)
    /\ []((op = "sweep" /\ pc = "done") =>
              \A e \in pre :
                  now_utc - e.last_update > MAX_INACTIVE_HOURS * 3600 * TicksPerSec
                      => ~Has(active_shares, e.key))

\* after the last counted callback a run of the job, fired by the timer, has
\* removed a share that was past the limit
C17_Witness ==
    /\ op = "sweep" /\ pc = "done"
    /\ events = MaxEvents
    /\ \E e \in pre :
           /\ now_utc - e.last_update > MAX_INACTIVE_HOURS * 3600 * TicksPerSec
           /\ ~Has(active_shares, e.key)


\* the steps of a close up to and including its deletion step: the handle is
\* fetched, the row is appended (every attempt), the key is about to be deleted
Appending == InCallback("close") /\ pc \in {"get_ws", "append", "reget_ws", "remove"}

\* C18: from the start of a close through every attempt of the append the
\* share stays in the registry, which is as the close found it; the key leaves
\* the registry only in the step after the append has returned true or false
C18_KeptUntilAppendReturned ==
    /\ [](Appending => Has(active_shares, share_key) /\ active_shares = pre)
    /\ [][(op = "close" /\ op' = "close"
             /\ Has(active_shares, share_key) /\ ~Has(active_shares', share_key))
               => pc = "remove" /\ success \in {"true", "false"}]_vars

\* the append has used up its attempts on transient failures and returned
\* false; the share is still in the registry
C18_Witness ==
    /\ InCallback("close") /\ pc = "remove"
    /\ Len(tried) = max_retries + 1
    /\ \A i \in 1..Len(tried) : tried[i] = "transient"
    /\ success = "false"
    /\ Has(active_shares, share_key)


\* a callback other than the running one begins or resumes: a handler of a
\* location event, the status command, or a run of the job
OtherStep ==
    \/ \E k \in Keys : Open(k) \/ EditedIgnored(k) \/ Heartbeat(k) \/ CloseBegin(k)
    \/ StatusBadDate \/ StatusDateReplyFails \/ StatusReport \/ StatusSent
    \/ StatusSentPlain
    \/ SweepJob

SaveSteps == {"save_prepare", "save_open", "save_dump", "save_replace", "save_finally"}

\* C20: a run of the job takes the time, selects and deletes the stale shares
\* in its first step and is from then on in its save or at its end; while it
\* runs no handler, no status step and no second run can take a step, the
\* clock read and the registry stay as that first step left them, and the run
\* ends by returning (or with the process)
C20_SweepRunsAlone ==
    /\ [](op = "sweep" => pc \in SaveSteps \cup {"done"} /\ ~ENABLED OtherStep)
    /\ [][(op # "sweep" /\ op' = "sweep")
               => /\ now_utc' = clock
                  /\ active_shares' = Cleanup(active_shares, clock)
                  /\ pc' = IF active_shares' # active_shares THEN "save_prepare"
                           ELSE "done"]_vars
    /\ [][op = "sweep"
               => /\ events' = events /\ st_pc' = st_pc /\ clock' = clock
                  /\ op' \in {"sweep", "none"}
                  /\ op' = "sweep" => /\ active_shares' = active_shares
                                      /\ now_utc' = now_utc
                                      /\ pc # "done" /\ pc' # pc]_vars

\* a run of the job has removed a share and is in the middle of its save,
\* while more callbacks are still to come
C20_Witness ==
    /\ op = "sweep" /\ pc = "save_dump"
    /\ active_shares # pre
    /\ events < MaxEvents


\* C21: a run of the job goes on to save_state exactly when it removed a
\* share; a run that removed nothing is at its end at once, has prepared no
\* data to save and has left both files as they were
C21_SweepSavesIffRemoved ==
    /\ [](InCallback("sweep") =>
              /\ active_shares = pre => pc = "done" /\ data_to_save = <<>>
              /\ Saving => active_shares # pre)
    /\ [][(op # "sweep" /\ op' = "sweep")
               => /\ fs' = fs
                  /\ pc' = "save_prepare" <=> active_shares' # active_shares]_vars
    /\ [][(op' = "sweep" /\ active_shares' = pre') => fs' = fs]_vars

\* a run of the job found only fresh shares: it has ended, nothing was removed
\* and the snapshot on disk is the one that was there
C21_Witness ==
    /\ InCallback("sweep") /\ pc = "done"
    /\ pre # {} /\ active_shares = pre
    /\ fs[STATE_FILENAME].kind = "json"
    /\ LoadState(fs[STATE_FILENAME]) = active_shares


\* C22: a heartbeat leaves the last update of its share at or after the value
\* the share had before the heartbeat
C22_LastUpdateNeverDecreases ==
    InCallback("heartbeat") =>
        Get(active_shares, share_key).last_update
            >= Get(pre, share_key).last_update


\* C23: no step of save_state, neither one that goes well nor one that fails,
\* changes the registry: the keys and every attribute of every share are after
\* the step what they were before it
C23_SaveLeavesRegistry ==
    [][(pc \in SaveSteps /\ pc' \in SaveSteps \cup {"done"})
           => active_shares' = active_shares]_vars

\* the save_state of a heartbeat failed after it had begun to write: the
\* snapshot is the one from before, the registry holds the updated share with
\* its instants
C23_Witness ==
    /\ InCallback("heartbeat") /\ pc = "done"
    /\ active_shares # pre
    /\ active_shares = UpdateShare(pre, share_key, now_utc)
    /\ prev_file.kind = "json"
    /\ data_to_save = PrepareData(active_shares)
    /\ fs[STATE_FILENAME] = prev_file


----------------------------------------------------------------------------
(* Properties of get_worksheet_with_retry, stated over HandleSpec *)

Returned == pc = "hw_done"

\* C24: a handle that passes the probe is returned with no setup call;
\* otherwise setup is called at most max_retries + 1 times, each call after a
\* failed one, the call returns the handle of the first setup that succeeds,
\* and it returns no handle only when max_retries + 1 setups have all failed
C24_HandleAcquisitionBounded ==
    /\ Len(tried) <= max_retries + 1
    /\ \A i \in 1..Len(tried) : tried[i] = pre.setups[i]
    /\ \A i \in 1..(Len(tried) - 1) : ~tried[i]
    /\ Returned =>
          /\ (pre.handle = "ws" /\ pre.probe_ok)
                 => tried = <<>> /\ gs_worksheet = "ws"
          /\ ~(pre.handle = "ws" /\ pre.probe_ok)
                 => /\ tried # <<>>
                    /\ gs_worksheet = "ws" <=> tried[Len(tried)]
                    /\ gs_worksheet = "none"
                          <=> /\ Len(tried) = max_retries + 1
                              /\ \A i \in 1..Len(tried) : ~tried[i]
          /\ gs_worksheet = GetWorksheetWithRetry(pre.handle, pre.probe_ok, pre.setups)

\* the handle the bot held failed the probe, two setups failed and the last one
\* the loop allows succeeded: its handle is returned
C24_Witness ==
    /\ Returned
    /\ pre.handle = "ws" /\ ~pre.probe_ok
    /\ Len(tried) = max_retries + 1
    /\ tried[Len(tried)]
    /\ gs_worksheet = "ws"


----------------------------------------------------------------------------
(* Further properties of the running bot, stated over Spec *)

\* C25: the append makes at most max_retries + 1 attempts, every attempt but
\* the last failed transiently (none follows a success), and it returns true
\* exactly when its last attempt succeeded; an attempt is made only with a
\* worksheet, and when none was obtained, at first or before a retry, the
\* append has returned false with no attempt after that
C25_AppendBoundedAndExact ==
    /\ Len(tried) <= max_retries + 1
    /\ \A i \in 1..(Len(tried) - 1) : tried[i] = "transient"
    /\ pc = "append" => gs_worksheet = "ws" /\ Len(tried) = attempt
    /\ AppendReturned =>
          /\ success \in {"true", "false"}
          /\ success = "true" <=> (tried # <<>> /\ tried[Len(tried)] = "ok")
          /\ gs_worksheet = "none" =>
                 /\ success = "false"
                 /\ AllTransient(tried)
                 /\ Len(tried) <= max_retries

\* one attempt failed transiently with retries left, no worksheet could be
\* obtained for the retry, and the append returned false
C25_Witness ==
    /\ AppendReturned
    /\ tried = <<"transient">>
    /\ gs_worksheet = "none"
    /\ success = "false"


----------------------------------------------------------------------------
(* Further properties of status_command, stated over StatusSpec *)

\* the report has just been built
Reported == st_pc' = "send" /\ st_pc # "send"

\* C26: the shares a report lists as active are exactly the shares of the
\* registry whose last update is no longer ago than the limit; a share past
\* the limit that no run of the job has removed yet is not listed, and the
\* report leaves it in the registry
C26_LiveSectionExact ==
    [][Reported =>
           /\ st_reply'.live =
                  {e \in active_shares :
                       clock - e.last_update <= MAX_INACTIVE_HOURS * 3600 * TicksPerSec}
           /\ active_shares' = active_shares]_vars

\* a report is waiting to be sent; the registry holds a share past the limit,
\* which the report does not list, and a fresh one, which it lists
C26_Witness ==
    /\ st_pc = "send"
    /\ st_reply.live \subseteq active_shares
    /\ \E e \in active_shares :
           /\ clock - e.last_update > MAX_INACTIVE_HOURS * 3600 * TicksPerSec
           /\ e \notin st_reply.live
    /\ \E e \in st_reply.live :
           clock - e.last_update <= MAX_INACTIVE_HOURS * 3600 * TicksPerSec


----------------------------------------------------------------------------
(* Properties of the report of status_command, stated over ReportSpec *)

\* the sum of the duration seconds of a set of rows of the sheet
RECURSIVE SumOfRows(_)
SumOfRows(I) ==
    IF I = {} THEN 0
    ELSE LET i == CHOOSE x \in I : TRUE
         IN ledger[i].duration_seconds + SumOfRows(I \ {i})

\* the rows of the sheet that a report for target_date is about
RowsOn(target_date) ==
    {i \in 1..Len(ledger) : DateOf(ledger[i].start_br) = target_date}

RowsOf(g) == {g.records[p] : p \in 1..Len(g.records)}

\* the report built from the rows of the sheet: its records are exactly the
\* rows whose start in the display zone is on the target date, each once,
\* under the name of its row; the records of a name are in ascending order of
\* start; the total of a name is the sum of its records and the total of all
\* the sum over the names; a name with 600 s and 900 s has the total text
\* subtotal_text
ReportIsOfDate(subtotal_text) ==
    (Reported /\ st_reply'.sheet = "rows") =>
        LET section == st_reply'.section
            on == RowsOn(st_reply'.target[1])
        IN /\ section.found <=> on # {}
           /\ \A g \in section.groups :
                  /\ g.records # <<>>
                  /\ Len(g.records) = Cardinality(RowsOf(g))
                  /\ RowsOf(g) = {i \in on : ColabName(ledger[i]) = g.name}
                  /\ \A p \in 1..Len(g.records) : \A q \in p..Len(g.records) :
                         TimeOfDay(ledger[g.records[p]].start_br)
                             <= TimeOfDay(ledger[g.records[q]].start_br)
                  /\ g.total_seconds = SumOfRows(RowsOf(g))
                  /\ g.total = DurationText(g.total_seconds)
                  /\ (/\ Len(g.records) = 2
                      /\ {ledger[i].duration_seconds : i \in RowsOf(g)} = {600, 900})
                         => g.total = subtotal_text
           /\ \A i \in on : \E g \in section.groups : i \in RowsOf(g)
           /\ section.total_geral_seconds = SumOfRows(on)
           /\ section.found =>
                  section.total_geral = DurationText(section.total_geral_seconds)

\* C27 as stated: with the subtotal of 600 s and 900 s written 0:25:00
C27_AsStated ==
    [][ReportIsOfDate(<<"0", ":", "2", "5", ":", "0", "0">>)]_vars

\* C27: the report for a date holds exactly the rows of that date in the
\* display zone, by name, in ascending order of start within a name, with the
\* sum of the duration seconds per name and over all names; 600 s and 900 s
\* give the subtotal 00:25:00
C27_ReportOfDate ==
    [][ReportIsOfDate(<<"0", "0", ":", "2", "5", ":", "0", "0">>)]_vars

\* a report over three rows: two of one name on the target date, written in
\* the sheet the later one first and listed the earlier one first, 1500 s in
\* all, and a row of another date that the report leaves out
C27_Witness ==
    /\ st_pc = "send" /\ st_reply.sheet = "rows"
    /\ Len(ledger) = 3
    /\ Cardinality(RowsOn(st_reply.target[1])) = 2
    /\ \E g \in st_reply.section.groups :
           /\ Len(g.records) = 2
           /\ g.records[1] > g.records[2]
           /\ g.total_seconds = 1500
           /\ st_reply.section.total_geral_seconds = 1500


----------------------------------------------------------------------------
(* Properties of the cut of the report, stated over TruncSpec *)

EndsWith(text, tail) ==
    /\ Len(text) >= Len(tail)
    /\ \A i \in 1..Len(tail) : text[Len(text) - Len(tail) + i] = tail[i]

\* C28: the text given to the send has at most 4096 characters; a joined
\* report of at most 4096 characters is given as it is; a longer one is given
\* as its first characters followed by the marker, 4096 characters at most in
\* all; the plain text sent when the first send failed is no longer
C28_ReportFitsMessage ==
    st_pc # "join" =>
        /\ Len(st_reply.final_reply) <= 4096
        /\ Len(st_reply.sent) <= 4096
        /\ Len(st_reply.joined) <= 4096 => st_reply.final_reply = st_reply.joined
        /\ Len(st_reply.joined) > 4096 =>
               /\ EndsWith(st_reply.final_reply, TruncationMarker)
               /\ \A i \in 1..(Len(st_reply.final_reply) - Len(TruncationMarker)) :
                      st_reply.final_reply[i] = st_reply.joined[i]
               /\ Len(st_reply.final_reply) < Len(st_reply.joined)

\* a joined report one character over the limit has been cut and is about to
\* be sent
C28_Witness ==
    /\ st_pc = "send"
    /\ Len(st_reply.joined) = 4097
    /\ Len(st_reply.final_reply) = 4096
    /\ EndsWith(st_reply.final_reply, TruncationMarker)


----------------------------------------------------------------------------
(* Frame of the handlers and of the job, stated over Spec *)

\* C29: a heartbeat sets the last update of its share and nothing else: the
\* share keeps its key, start, user id and name and every other share is as it
\* was; a close takes its own share out and a run of the job takes out shares
\* past the limit, and the shares that remain are those that were there,
\* unchanged
C29_OnlyTheTargetChanges ==
    /\ InCallback("heartbeat") =>
           /\ Has(pre, share_key) /\ Has(active_shares, share_key)
           /\ Get(active_shares, share_key) =
                  [Get(pre, share_key) EXCEPT !.last_update = now_utc]
           /\ Others(active_shares, share_key) = Others(pre, share_key)
           /\ Cardinality(active_shares) = Cardinality(pre)
    /\ InCallback("close") =>
           IF Appending THEN active_shares = pre
           ELSE active_shares = Others(pre, share_key)
    /\ InCallback("sweep") =>
           /\ active_shares \subseteq pre
           /\ \A e \in pre \ active_shares :
                  now_utc - e.last_update > MAX_INACTIVE_HOURS * 3600 * TicksPerSec

\* a heartbeat of one of two shares has run to its end: its share has a later
\* last update and its old start, the other share is as it was
C29_Witness ==
    /\ InCallback("heartbeat") /\ pc = "done"
    /\ Cardinality(pre) = 2
    /\ Get(active_shares, share_key).last_update > Get(pre, share_key).last_update
    /\ Get(active_shares, share_key).start_time < now_utc
    /\ Others(active_shares, share_key) = Others(pre, share_key)


\* append_row_with_retry is running
Invoked == pc \in {"get_ws", "append", "reget_ws"}

\* C30: the append to the sheet runs only in the close of a share that is in
\* the registry and has not been closed before; an open, a heartbeat, an edit
\* for an unknown key and a run of the job make no attempt and leave the sheet
\* as it was; a close adds at most one row and always ends with its share
\* removed and its key marked closed, so that the next end event for the key
\* finds no share and invokes nothing
C30_OneAppendPerSession ==
    /\ Invoked =>
           /\ op = "close"
           /\ Has(pre, share_key) /\ Has(active_shares, share_key)
           /\ share_key \notin closed
    /\ (pc # "idle" /\ op \in {"open", "heartbeat", "edit", "sweep"}) =>
           /\ ledger = pre_ledger
           /\ tried = <<>>
           /\ success = "none"
    /\ InCallback("close") =>
           /\ Len(ledger) <= Len(pre_ledger) + 1
           /\ SubSeq(ledger, 1, Len(pre_ledger)) = pre_ledger
           /\ AfterRemove => ~Has(active_shares, share_key) /\ share_key \in closed
    /\ \A k \in closed : ~Has(active_shares, k)

\* a share was opened and closed with its row written; a second end event for
\* its key has been handled: no attempt was made and the sheet has its one row
C30_Witness ==
    /\ op = "edit" /\ pc = "done"
    /\ share_key \in closed
    /\ tried = <<>> /\ success = "none"
    /\ Len(ledger) = 1
    /\ ledger = pre_ledger

----------------------------------------------------------------------------
(* Properties of the end of a share, stated over CloseSpec *)

\* C31: the record of a close is computed once, when the close event is
\* handled and before the append starts, from the share's start_time and the
\* clock of that instant; the handler never changes it afterwards, whatever
\* time the retries and the reacquisition of the handle take, and every
\* attempt that writes a row writes that record
C31_RecordComputedOnce ==
    /\ [][(pc = "idle" /\ op' = "close")
            => /\ now_utc' = clock
               /\ row_data' = RowData(Get(active_shares, share_key'), clock)
               /\ tried' = <<>> /\ ledger' = ledger]_vars
    /\ [][(InCallback("close") /\ op' = "close")
            => row_data' = row_data /\ now_utc' = now_utc]_vars
    /\ [][ledger' # ledger
            => pc = "append" /\ ledger' = Append(ledger, row_data)]_vars
    /\ [](InCallback("close")
            => /\ row_data = RowData(Get(pre, share_key), now_utc)
               /\ row_data.end_utc = Strftime(now_utc, 0)
               /\ row_data.duration_seconds
                     = DurationSeconds(Get(pre, share_key).start_time, now_utc))

\* two attempts failed transiently and the third wrote the row, two sleeps
\* later: the clock shows a later second than the end time of the row, and
\* the duration of the row is the positive one up to the handling instant
C31_Witness ==
    /\ InCallback("close") /\ pc = "remove"
    /\ tried = <<"transient", "transient", "ok">>
    /\ clock - now_utc >= 2 * delay * SEC
    /\ ledger = Append(pre_ledger, row_data)
    /\ row_data.end_utc = Strftime(now_utc, 0)
    /\ row_data.end_utc # Strftime(clock, 0)
    /\ row_data.duration_seconds > 0
    /\ row_data.duration_seconds
          # DurationSeconds(Get(pre, share_key).start_time, clock)

====
